---------------------------- MODULE Spec2Model ----------------------------
(***************************************************************************)
(* A model of the Smile codec of json-pack: SmileEncoderBase,              *)
(* SmileDecoderBase and the helpers of smile/util.ts.                      *)
(*                                                                         *)
(* Numbers.  A JavaScript integer is kept as a sign and a magnitude of     *)
(* four 16-bit limbs (least significant first), so that the 32-bit         *)
(* coercions of the bitwise operators (ToInt32) are computed as the        *)
(* engine computes them.  Bytes are naturals below 256.  A string is the   *)
(* sequence of its Unicode scalar values; its JavaScript length counts     *)
(* UTF-16 code units.  A float is the sequence of the 64 bits of its       *)
(* IEEE-754 double, most significant first.                                *)
(***************************************************************************)
EXTENDS Integers, Sequences, FiniteSets, TLC

(***************************************************************************)
(* smile/constants.ts                                                      *)
(***************************************************************************)
HEADER_BYTE_0 == 58
HEADER_BYTE_1 == 41
HEADER_BYTE_2 == 10
HEADER_VERSION_MASK == 240
HEADER_VERSION_CURRENT == 0
HEADER_RAW_BINARY_ENABLED == 4
HEADER_SHARED_STRING_VALUES == 2
HEADER_SHARED_PROPERTY_NAMES == 1

SHORT_SHARED_VALUE_MIN == 1
SHORT_SHARED_VALUE_MAX == 31
V_EMPTY_STRING == 32
V_NULL == 33
V_FALSE == 34
V_TRUE == 35
V_INT_32 == 36
V_INT_64 == 37
V_BIG_INTEGER == 38
V_FLOAT_32 == 40
V_FLOAT_64 == 41
TINY_ASCII_MIN == 64
TINY_ASCII_MAX == 95
SHORT_ASCII_MIN == 96
SHORT_ASCII_MAX == 127
TINY_UNICODE_MIN == 128
TINY_UNICODE_MAX == 159
SHORT_UNICODE_MIN == 160
SHORT_UNICODE_MAX == 191
SMALL_INT_MIN == 192
SMALL_INT_MAX == 223
LONG_ASCII_TEXT == 224
LONG_UNICODE_TEXT == 228
BINARY_7BIT == 232
SHARED_STRING_LONG == 236
START_ARRAY == 248
END_ARRAY == 249
START_OBJECT == 250
END_OBJECT == 251
END_STRING_MARKER == 252
BINARY_RAW == 253

K_EMPTY_STRING == 32
K_LONG_SHARED_MIN == 48
K_LONG_SHARED_MAX == 51
K_LONG_UNICODE_NAME == 52
K_SHORT_SHARED_MIN == 64
K_SHORT_SHARED_MAX == 127
K_SHORT_ASCII_MIN == 128
K_SHORT_ASCII_MAX == 191
K_SHORT_UNICODE_MIN == 192
K_SHORT_UNICODE_MAX == 247

MAX_REFERENCES == 1024
MAX_SHORT_REFERENCE == 31
MIN_LONG_REFERENCE == 31
SMALL_INT_BIAS == 16

ERR_INVALID_HEADER == "Invalid Smile header"
ERR_UNEXPECTED_END == "Unexpected end of input"
ERR_INVALID_TOKEN == "Invalid token"
ERR_INVALID_REFERENCE == "Invalid shared string reference"
ERR_UNSUPPORTED_VERSION == "Unsupported Smile format version"
ERR_MALFORMED_VINT == "Malformed variable-length integer"

(***************************************************************************)
(* Sequences and bits.                                                     *)
(***************************************************************************)
Pow2(n) == 2 ^ n

\* The concatenation of ss[lo], ..., ss[hi], by halving.
RECURSIVE FlattenRange(_, _, _)
FlattenRange(ss, lo, hi) ==
  IF lo > hi THEN << >>
  ELSE IF lo = hi THEN ss[lo]
  ELSE LET mid == (lo + hi) \div 2
       IN FlattenRange(ss, lo, mid) \o FlattenRange(ss, mid + 1, hi)

Flatten(ss) == FlattenRange(ss, 1, Len(ss))

\* The sum of f[lo], ..., f[hi], by halving.
RECURSIVE SumRange(_, _, _)
SumRange(f, lo, hi) ==
  IF lo > hi THEN 0
  ELSE IF lo = hi THEN f[lo]
  ELSE LET mid == (lo + hi) \div 2
       IN SumRange(f, lo, mid) + SumRange(f, mid + 1, hi)

\* Bit k (0 = least significant) of the natural n.
BitOf(n, k) == (n \div Pow2(k)) % 2

IsPrefix(p, s) == Len(p) <= Len(s) /\ SubSeq(s, 1, Len(p)) = p

(***************************************************************************)
(* JavaScript integers.                                                    *)
(***************************************************************************)
Limb == 2 ^ 16

\* The magnitude of a natural below 2^31.
Big(n) == << n % Limb, n \div Limb, 0, 0 >>

BigIsZero(m) == m = << 0, 0, 0, 0 >>

\* m * 2, for m below 2^63.
BigTimes2(m) ==
  LET c1 == (2 * m[1]) \div Limb
      c2 == (2 * m[2] + c1) \div Limb
      c3 == (2 * m[3] + c2) \div Limb
  IN << (2 * m[1]) % Limb, (2 * m[2] + c1) % Limb,
        (2 * m[3] + c2) % Limb, (2 * m[4] + c3) % Limb >>

\* m - 1, for m above 0.
BigMinus1(m) ==
  IF m[1] > 0 THEN << m[1] - 1, m[2], m[3], m[4] >>
  ELSE IF m[2] > 0 THEN << Limb - 1, m[2] - 1, m[3], m[4] >>
  ELSE IF m[3] > 0 THEN << Limb - 1, Limb - 1, m[3] - 1, m[4] >>
  ELSE << Limb - 1, Limb - 1, Limb - 1, m[4] - 1 >>

\* Whether the magnitude is below 2^31, and then its value.
BigFitsInt(m) == m[3] = 0 /\ m[4] = 0 /\ m[2] < 32768
BigToInt(m) == m[2] * Limb + m[1]

\* ToInt32 of a non-negative integer: its low 32 bits as a signed integer.
ToInt32(m) ==
  IF m[2] >= 32768 THEN (m[2] - Limb) * Limb + m[1] ELSE m[2] * Limb + m[1]

\* A signed JavaScript integer, from a native integer above -2^31.
JsInt(n) ==
  IF n < 0 THEN [neg |-> TRUE, mag |-> Big(0 - n)]
  ELSE [neg |-> FALSE, mag |-> Big(n)]

\* Number.isSafeInteger: magnitude below 2^53.
IsSafeInteger(i) == i.mag[4] < 32

\* a << k for a 32-bit a: the low 32 - k bits move up, the result is signed.
Shl32(a, k) ==
  LET low == a % Pow2(32 - k)
      half == Pow2(31 - k)
  IN IF low >= half
       THEN ((low - half) * Pow2(k) - Pow2(30)) - Pow2(30)
       ELSE low * Pow2(k)

\* The value of a bit sequence, most significant bit first.
BitsVal(bits) ==
  SumRange([i \in 1..Len(bits) |-> bits[i] * Pow2(Len(bits) - i)], 1, Len(bits))

\* The n bits of the natural v, most significant first.
BitsOf(v, n) == [i \in 1..n |-> BitOf(v, n - i)]

Zeros(n) == [i \in 1..n |-> 0]

(***************************************************************************)
(* Writer and Reader of @jsonjoy.com/util, which the codec imports.  The   *)
(* writer stores bytes; flush returns what was written and empties it.     *)
(* The reader fails with UnexpectedEnd when a read crosses the end of the  *)
(* input, before the cursor moves.                                         *)
(***************************************************************************)
\* writer.u8(v): a byte store keeps the low eight bits.
WriterU8(out, v) == Append(out, v % 256)

\* writer.buf(bytes, length)
WriterBuf(out, bytes) == out \o bytes

\* Whether n more bytes can be read at cursor x.
ReaderHas(data, x, n) == n >= 0 /\ x + n <= Len(data)

\* reader.u8() at cursor x, where ReaderHas(data, x, 1).
ReaderU8(data, x) == data[x + 1]

\* reader.buf(n) at cursor x, where ReaderHas(data, x, n).
ReaderBuf(data, x, n) == SubSeq(data, x + 1, x + n)

(***************************************************************************)
(* TextEncoder.encode and TextDecoder.decode (UTF-8, not fatal).           *)
(***************************************************************************)
\* The UTF-8 bytes of one scalar value.
Utf8OfChar(c) ==
  IF c < 128 THEN << c >>
  ELSE IF c < 2048 THEN << 192 + c \div 64, 128 + (c % 64) >>
  ELSE IF c < 65536
    THEN << 224 + c \div 4096, 128 + ((c \div 64) % 64), 128 + (c % 64) >>
  ELSE << 240 + c \div 262144, 128 + ((c \div 4096) % 64),
          128 + ((c \div 64) % 64), 128 + (c % 64) >>

\* new TextEncoder().encode(str)
Utf8Encode(str) == Flatten([i \in 1..Len(str) |-> Utf8OfChar(str[i])])

\* str.length: UTF-16 code units.
JsLength(str) ==
  SumRange([i \in 1..Len(str) |-> IF str[i] >= 65536 THEN 2 ELSE 1], 1, Len(str))

IsCont(b) == b >= 128 /\ b <= 191

\* The continuation bytes a lead byte asks for (0: not a lead byte).
Utf8Needed(b) ==
  IF b >= 194 /\ b <= 223 THEN 1
  ELSE IF b >= 224 /\ b <= 239 THEN 2
  ELSE IF b >= 240 /\ b <= 244 THEN 3
  ELSE 0

\* The range of the first continuation byte after lead byte b.
Utf8Lower(b) == IF b = 224 THEN 160 ELSE IF b = 240 THEN 144 ELSE 128
Utf8Upper(b) == IF b = 237 THEN 159 ELSE IF b = 244 THEN 143 ELSE 191

\* Whether the byte k places after the lead byte at p continues its sequence.
Utf8Accepts(bytes, p, k) ==
  /\ p + k <= Len(bytes)
  /\ IF k = 1
       THEN bytes[p + 1] >= Utf8Lower(bytes[p]) /\ bytes[p + 1] <= Utf8Upper(bytes[p])
       ELSE IsCont(bytes[p + k])

\* The number of continuation bytes the lead byte at p takes.
Utf8Taken(bytes, p) ==
  LET n == Utf8Needed(bytes[p])
  IN IF n >= 1 /\ Utf8Accepts(bytes, p, 1)
       THEN IF n >= 2 /\ Utf8Accepts(bytes, p, 2)
              THEN IF n >= 3 /\ Utf8Accepts(bytes, p, 3) THEN 3 ELSE 2
              ELSE 1
       ELSE 0

\* Whether the byte at j is taken by a lead byte before it.
Utf8Consumed(bytes, j) ==
  \E d \in 1..3 :
    /\ j - d >= 1
    /\ Utf8Needed(bytes[j - d]) >= d
    /\ Utf8Taken(bytes, j - d) >= d

\* The scalar value of the complete sequence that starts at p.
Utf8Scalar(bytes, p) ==
  LET n == Utf8Needed(bytes[p])
  IN IF n = 1 THEN (bytes[p] - 192) * 64 + (bytes[p + 1] - 128)
     ELSE IF n = 2
       THEN (bytes[p] - 224) * 4096 + (bytes[p + 1] - 128) * 64 + (bytes[p + 2] - 128)
     ELSE (bytes[p] - 240) * 262144 + (bytes[p + 1] - 128) * 4096
            + (bytes[p + 2] - 128) * 64 + (bytes[p + 3] - 128)

REPLACEMENT == 65533

\* What the decoder emits at position p: a scalar, U+FFFD for a malformed or
\* cut sequence, nothing for a byte taken by the sequence before it.
Utf8Emit(bytes, p) ==
  IF Utf8Consumed(bytes, p) THEN << >>
  ELSE IF bytes[p] < 128 THEN << bytes[p] >>
  ELSE IF Utf8Needed(bytes[p]) >= 1 /\ Utf8Taken(bytes, p) = Utf8Needed(bytes[p])
    THEN << Utf8Scalar(bytes, p) >>
  ELSE << REPLACEMENT >>

HasBom(bytes) == Len(bytes) >= 3 /\ SubSeq(bytes, 1, 3) = << 239, 187, 191 >>

\* new TextDecoder().decode(bytes): a leading byte order mark is dropped.
Utf8Decode(bytes) ==
  LET body == IF HasBom(bytes) THEN SubSeq(bytes, 4, Len(bytes)) ELSE bytes
  IN Flatten([p \in 1..Len(body) |-> Utf8Emit(body, p)])

(***************************************************************************)
(* smile/util.ts                                                           *)
(***************************************************************************)
\* value >= 0 ? value * 2 : (-value * 2) - 1
zigzagEncode(value) ==
  IF ~value.neg THEN BigTimes2(value.mag) ELSE BigMinus1(BigTimes2(value.mag))

\* (value & 1) === 0 ? value / 2 : -(value + 1) / 2, for a 32-bit value.
zigzagDecode(value) ==
  IF value % 2 = 0 THEN JsInt(value \div 2)
  ELSE JsInt(0 - ((value - 1) \div 2 + 1))

\* The 7-bit groups of r, most significant first (the loop of writeVInt and
\* the reversed write that follows it).
RECURSIVE VIntGroups(_)
VIntGroups(r) == IF r > 0 THEN Append(VIntGroups(r \div 128), r % 128) ELSE << >>

\* writeVInt(writer, value): the bytes written for the magnitude value.
\* remaining >>= 6 coerces the number to 32 bits first.
writeVInt(value) ==
  IF BigIsZero(value) THEN << 128 >>
  ELSE LET lastBits == value[1] % 64
           remaining == ToInt32(value) \div 64
       IN Append(VIntGroups(remaining), 128 + lastBits)

\* The while loop of readVInt, with the bytes accumulated so far.
RECURSIVE readVIntLoop(_, _, _)
readVIntLoop(data, x, result) ==
  IF ~ReaderHas(data, x, 1) THEN [err |-> ERR_UNEXPECTED_END, val |-> 0, x |-> x]
  ELSE LET byte == ReaderU8(data, x)
       IN IF byte >= 128
            THEN [err |-> "", val |-> Shl32(result, 6) + (byte % 64), x |-> x + 1]
            ELSE readVIntLoop(data, x + 1, Shl32(result, 7) + (byte % 128))

\* readVInt(reader): the value read at cursor x and the cursor after it.
readVInt(data, x) ==
  IF ~ReaderHas(data, x, 1) THEN [err |-> ERR_UNEXPECTED_END, val |-> 0, x |-> x]
  ELSE LET byte == ReaderU8(data, x)
       IN IF byte >= 128 THEN [err |-> "", val |-> byte % 64, x |-> x + 1]
          ELSE readVIntLoop(data, x + 1, byte % 128)

\* Bit j (0 = first) of the input of encodeSafeBinary, zero past its end.
SafeSourceBit(data, j) ==
  IF j \div 8 >= Len(data) THEN 0 ELSE BitOf(data[j \div 8 + 1], 7 - (j % 8))

\* Math.floor((n * 8) / 7): the length without the byte of the last bits.
SafeEncodedLengthFloor(n) == (n * 8) \div 7

\* Math.ceil((n * 8) / 7)
SafeEncodedLength(n) == (n * 8 + 6) \div 7

encodeSafeBinary(data) ==
  IF Len(data) = 0 THEN << >>
  ELSE [i \in 1..SafeEncodedLength(Len(data)) |->
          BitsVal([bit \in 1..7 |-> SafeSourceBit(data, 7 * (i - 1) + bit - 1)])]

\* Bit j (0 = first) of the 7-bit stream of decodeSafeBinary, zero past its end.
SafeStreamBit(encodedData, j) ==
  IF j \div 7 >= Len(encodedData) THEN 0
  ELSE BitOf(encodedData[j \div 7 + 1] % 128, 6 - (j % 7))

decodeSafeBinary(encodedData, originalLength) ==
  IF originalLength <= 0 THEN << >>
  ELSE [k \in 1..originalLength |->
          BitsVal([b \in 1..8 |-> SafeStreamBit(encodedData, 8 * (k - 1) + b - 1)])]

\* new TextEncoder().encode(str).length <= 64
isStringShareable(str) == Len(Utf8Encode(str)) <= 64

(***************************************************************************)
(* IEEE-754, as DataView.setFloat32/getFloat32/setFloat64/getFloat64 and   *)
(* Math.fround compute it.  A number is the 64 bits of its double.         *)
(***************************************************************************)
Ones(n) == [i \in 1..n |-> 1]

AllZero(bits) == \A i \in 1..Len(bits) : bits[i] = 0

F64Exp(b) == BitsVal(SubSeq(b, 2, 12))

F64Frac(b) == SubSeq(b, 13, 64)

IsNaN64(b) == F64Exp(b) = 2047 /\ ~AllZero(F64Frac(b))

\* The one NaN a JavaScript number can be.
CanonicalNaN == << 0 >> \o Ones(11) \o << 1 >> \o Zeros(51)

\* Math.fround(float) === float
FroundExact(b) ==
  LET e == F64Exp(b)
      E == e - 1023
  IN IF e = 2047 \/ e = 0 THEN AllZero(F64Frac(b))
     ELSE IF E > 127 THEN FALSE
     ELSE IF E >= 0 - 126 THEN AllZero(SubSeq(b, 36, 64))
     ELSE IF E >= 0 - 149 THEN AllZero(SubSeq(b, 36 - ((0 - 126) - E), 64))
     ELSE FALSE

\* The 32 bits setFloat32 stores for a number that a float32 holds exactly.
Float32Bits(b) ==
  LET e == F64Exp(b)
      E == e - 1023
      s == (0 - 126) - E
  IN IF e = 2047 THEN << b[1] >> \o Ones(8) \o Zeros(23)
     ELSE IF e = 0 THEN << b[1] >> \o Zeros(31)
     ELSE IF E >= 0 - 126 THEN << b[1] >> \o BitsOf(E + 127, 8) \o SubSeq(b, 13, 35)
     ELSE << b[1] >> \o Zeros(8) \o Zeros(s - 1) \o << 1 >> \o SubSeq(b, 13, 35 - s)

\* The number getFloat32 returns for 32 stored bits.
Float32Widen(f) ==
  LET e == BitsVal(SubSeq(f, 2, 9))
      fr == SubSeq(f, 10, 32)
      p == CHOOSE i \in 1..23 : fr[i] = 1 /\ \A j \in 1..(i - 1) : fr[j] = 0
  IN IF e = 255
       THEN IF AllZero(fr) THEN << f[1] >> \o Ones(11) \o Zeros(52) ELSE CanonicalNaN
     ELSE IF e = 0
       THEN IF AllZero(fr) THEN << f[1] >> \o Zeros(63)
            ELSE << f[1] >> \o BitsOf(1023 - 126 - p, 11)
                   \o SubSeq(fr, p + 1, 23) \o Zeros(29 + p)
     ELSE << f[1] >> \o BitsOf(e - 127 + 1023, 11) \o fr \o Zeros(29)

\* encodeFloat32: the 32 bits in groups of 7, 7, 7, 7 and 4 (moved up by 3).
encodeFloat32(value) ==
  LET bits == Float32Bits(value)
  IN << BitsVal(SubSeq(bits, 1, 7)), BitsVal(SubSeq(bits, 8, 14)),
        BitsVal(SubSeq(bits, 15, 21)), BitsVal(SubSeq(bits, 22, 28)),
        BitsVal(SubSeq(bits, 29, 32)) * 8 >>

\* decodeFloat32: the number held by five encoded bytes.
decodeFloat32(b) ==
  Float32Widen(BitsOf(b[1] % 128, 7) \o BitsOf(b[2] % 128, 7) \o BitsOf(b[3] % 128, 7)
                 \o BitsOf(b[4] % 128, 7) \o BitsOf((b[5] % 128) \div 8, 4))

\* encodeFloat64: the 64 bits in nine groups of 7 and a last bit (moved up by 6).
encodeFloat64(value) ==
  LET bits == IF IsNaN64(value) THEN CanonicalNaN ELSE value
  IN [i \in 1..10 |->
        IF i < 10 THEN BitsVal(SubSeq(bits, 7 * i - 6, 7 * i)) ELSE bits[64] * 64]

\* decodeFloat64: the number held by ten encoded bytes.
decodeFloat64(b) ==
  LET bits == Flatten([i \in 1..10 |->
                 IF i < 10 THEN BitsOf(b[i] % 128, 7) ELSE << BitOf(b[10], 6) >>])
  IN IF IsNaN64(bits) THEN CanonicalNaN ELSE bits

(***************************************************************************)
(* Values.  A value is a record [t, v]: "null", "bool" (v a boolean),      *)
(* "int" (v a JavaScript integer), "float" (v the bits of a number that is *)
(* not an integer), "str" (v a string), "bin" (v the bytes of a            *)
(* Uint8Array), "arr" (v a sequence of values), "obj" (v the sequence of   *)
(* the << key, value >> entries, in the order of Object.entries).          *)
(***************************************************************************)
NullV == [t |-> "null", v |-> 0]
BoolV(b) == [t |-> "bool", v |-> b]
IntV(n) == [t |-> "int", v |-> JsInt(n)]
FloatV(bits) == [t |-> "float", v |-> bits]
StrV(s) == [t |-> "str", v |-> s]
BinV(bytes) == [t |-> "bin", v |-> bytes]
ArrV(items) == [t |-> "arr", v |-> items]
ObjV(entries) == [t |-> "obj", v |-> entries]

(***************************************************************************)
(* SmileEncoderBase.  The encoder is the record e: out the bytes in the    *)
(* writer, sv and sk the shared value and key tables (the two maps hold    *)
(* the index of each string of the tables), log the value table or key     *)
(* table as it stands after each string or key token.                      *)
(*                                                                         *)
(* writeStr is read without lines 174-177, which repeat lines 170-173 and  *)
(* close no block.                                                         *)
(***************************************************************************)
\* sharedValueMap.get / sharedKeyMap.get: the index of str, -1 for undefined.
MapGet(table, str) ==
  IF \E i \in 1..Len(table) : table[i] = str
    THEN (CHOOSE i \in 1..Len(table) :
            table[i] = str /\ \A j \in (i + 1)..Len(table) : table[j] # str) - 1
    ELSE 0 - 1

EncU8(e, v) == [e EXCEPT !.out = WriterU8(@, v)]

EncBuf(e, bytes) == [e EXCEPT !.out = WriterBuf(@, bytes)]

EncLogValue(e) == [e EXCEPT !.log = Append(@, << "value", e.sv >>)]

EncLogKey(e) == [e EXCEPT !.log = Append(@, << "key", e.sk >>)]

\* The flags byte of writeHeader.
HeaderFlags(opt) ==
  HEADER_VERSION_CURRENT
    + (IF opt.rawBinaryEnabled THEN HEADER_RAW_BINARY_ENABLED ELSE 0)
    + (IF opt.sharedStringValues THEN HEADER_SHARED_STRING_VALUES ELSE 0)
    + (IF opt.sharedPropertyNames THEN HEADER_SHARED_PROPERTY_NAMES ELSE 0)

writeHeader(opt, e) ==
  EncU8(EncU8(EncU8(EncU8(e, HEADER_BYTE_0), HEADER_BYTE_1), HEADER_BYTE_2),
        HeaderFlags(opt))

writeNull(e) == EncU8(e, V_NULL)

writeBoolean(e, bool) == EncU8(e, IF bool THEN V_TRUE ELSE V_FALSE)

\* Whether int >= -16 && int <= 15.
IsSmallInt(int) ==
  /\ BigFitsInt(int.mag)
  /\ IF int.neg THEN BigToInt(int.mag) <= 16 ELSE BigToInt(int.mag) <= 15

\* writeInteger, for the safe integers (the values of the model hold no other).
writeInteger(e, int) ==
  IF IsSmallInt(int)
    THEN EncU8(e, SMALL_INT_MIN
                    + ((IF int.neg THEN 0 - BigToInt(int.mag) ELSE BigToInt(int.mag))
                         + SMALL_INT_BIAS))
    ELSE EncBuf(EncU8(e, V_INT_32), writeVInt(zigzagEncode(int)))

writeFloat(e, float) ==
  IF FroundExact(float)
    THEN EncBuf(EncU8(e, V_FLOAT_32), encodeFloat32(float))
    ELSE EncBuf(EncU8(e, V_FLOAT_64), encodeFloat64(float))

writeBin(opt, e, buf) ==
  IF opt.rawBinaryEnabled
    THEN EncBuf(EncBuf(EncU8(e, BINARY_RAW), writeVInt(Big(Len(buf)))), buf)
    ELSE LET encoded == encodeSafeBinary(buf)
         IN EncBuf(EncBuf(EncU8(e, BINARY_7BIT), writeVInt(Big(Len(encoded)))), encoded)

\* tryWriteSharedString, when the map holds the string at index.
tryWriteSharedString(e, index) ==
  IF index <= MAX_SHORT_REFERENCE
    THEN EncU8(e, SHORT_SHARED_VALUE_MIN + index)
    ELSE EncBuf(EncU8(e, SHARED_STRING_LONG), writeVInt(Big(index - MIN_LONG_REFERENCE)))

\* tryWriteSharedKey, when the map holds the key at index.
tryWriteSharedKey(e, index) ==
  IF index <= 63
    THEN EncU8(e, K_SHORT_SHARED_MIN + index)
    ELSE EncU8(EncU8(e, K_LONG_SHARED_MIN + ((index - 64) \div 256)), (index - 64) % 256)

\* The table after addSharedString / addSharedKey.
AddShared(table, str) ==
  IF Len(table) >= MAX_REFERENCES THEN Append(Tail(table), str) ELSE Append(table, str)

addSharedString(e, str) == [e EXCEPT !.sv = AddShared(@, str)]

addSharedKey(e, key) == [e EXCEPT !.sk = AddShared(@, key)]

\* The literal token and payload of writeStr for a string that is not empty.
writeStrLiteral(e, str) ==
  LET utf8 == Utf8Encode(str)
      length == JsLength(str)
      long(token) ==
        EncU8(EncBuf(EncBuf(EncU8(e, token), writeVInt(Big(Len(utf8)))), utf8),
              END_STRING_MARKER)
  IN IF Len(utf8) = length
       THEN IF length <= 31
              THEN IF length = 1 /\ utf8[1] >= 32 /\ utf8[1] <= 95
                     THEN EncU8(e, TINY_ASCII_MIN + utf8[1] - 32)
                     ELSE EncBuf(EncU8(e, SHORT_ASCII_MIN + length - 2), utf8)
              ELSE long(LONG_ASCII_TEXT)
       ELSE IF length <= 33
              THEN IF length = 1
                     THEN EncBuf(EncU8(e, TINY_UNICODE_MIN + (Len(utf8) - 2)), utf8)
                     ELSE EncBuf(EncU8(e, SHORT_UNICODE_MIN + length - 2), utf8)
              ELSE long(LONG_UNICODE_TEXT)

\* writeStr adding the string to the table after a reference too.
writeStrAddingAgain(opt, e, str) ==
  EncLogValue(
    IF JsLength(str) = 0 THEN EncU8(e, V_EMPTY_STRING)
    ELSE IF opt.sharedStringValues /\ MapGet(e.sv, str) >= 0
      THEN addSharedString(tryWriteSharedString(e, MapGet(e.sv, str)), str)
    ELSE LET w == writeStrLiteral(e, str)
         IN IF opt.sharedStringValues /\ isStringShareable(str)
              THEN addSharedString(w, str) ELSE w)

writeStr(opt, e, str) ==
  EncLogValue(
    IF JsLength(str) = 0 THEN EncU8(e, V_EMPTY_STRING)
    ELSE IF opt.sharedStringValues /\ MapGet(e.sv, str) >= 0
      THEN tryWriteSharedString(e, MapGet(e.sv, str))
    ELSE LET w == writeStrLiteral(e, str)
         IN IF opt.sharedStringValues /\ isStringShareable(str)
              THEN addSharedString(w, str) ELSE w)

\* The literal token and payload of writeKey for a key that is not empty.
writeKeyLiteral(e, key) ==
  LET utf8 == Utf8Encode(key)
      length == JsLength(key)
  IN IF Len(utf8) = length /\ length <= 63
       THEN EncBuf(EncU8(e, K_SHORT_ASCII_MIN + length - 1), utf8)
     ELSE IF length <= 56
       THEN EncBuf(EncU8(e, K_SHORT_UNICODE_MIN + length - 1), utf8)
     ELSE EncU8(EncBuf(EncBuf(EncU8(e, K_LONG_UNICODE_NAME), writeVInt(Big(Len(utf8)))),
                       utf8), END_STRING_MARKER)

writeKey(opt, e, key) ==
  EncLogKey(
    IF JsLength(key) = 0 THEN EncU8(e, K_EMPTY_STRING)
    ELSE IF opt.sharedPropertyNames /\ MapGet(e.sk, key) >= 0
      THEN tryWriteSharedKey(e, MapGet(e.sk, key))
    ELSE LET w == writeKeyLiteral(e, key)
         IN IF opt.sharedPropertyNames /\ isStringShareable(key)
              THEN addSharedKey(w, key) ELSE w)

RECURSIVE writeAny(_, _, _)
RECURSIVE writeArrItems(_, _, _, _)
RECURSIVE writeObjEntries(_, _, _, _)

\* The loop of writeArr, from item i on.
writeArrItems(opt, e, arr, i) ==
  IF i > Len(arr) THEN e
  ELSE writeArrItems(opt, writeAny(opt, e, arr[i]), arr, i + 1)

writeArr(opt, e, arr) ==
  EncU8(writeArrItems(opt, EncU8(e, START_ARRAY), arr, 1), END_ARRAY)

\* The loop of writeObj, from entry i on.
writeObjEntries(opt, e, entries, i) ==
  IF i > Len(entries) THEN e
  ELSE writeObjEntries(opt,
         writeAny(opt, writeKey(opt, e, entries[i][1]), entries[i][2]), entries, i + 1)

writeObj(opt, e, obj) ==
  EncU8(writeObjEntries(opt, EncU8(e, START_OBJECT), obj, 1), END_OBJECT)

writeAny(opt, e, value) ==
  CASE value.t = "int" -> writeInteger(e, value.v)
    [] value.t = "float" -> writeFloat(e, value.v)
    [] value.t = "str" -> writeStr(opt, e, value.v)
    [] value.t = "bool" -> writeBoolean(e, value.v)
    [] value.t = "null" -> writeNull(e)
    [] value.t = "arr" -> writeArr(opt, e, value.v)
    [] value.t = "obj" -> writeObj(opt, e, value.v)
    [] value.t = "bin" -> writeBin(opt, e, value.v)

(***************************************************************************)
(* SmileDecoderBase.  The decoder is the record d: data and x the input    *)
(* and cursor of the reader, header the flags of the last header read, sv  *)
(* and sk the shared tables, log the value table or key table as it stands *)
(* after each string or key token, err the error thrown ("" for none) and  *)
(* val the value returned.                                                 *)
(***************************************************************************)
\* options.maxSharedReferences of a decoder made without options.
maxSharedReferences == MAX_REFERENCES

Fail(d, error) == [d EXCEPT !.err = error]

Return(d, value) == [d EXCEPT !.val = value]

\* The decoder with its cursor moved by n, or set at x.
Advance(d, n) == [d EXCEPT !.x = @ + n]

At(d, x) == [d EXCEPT !.x = x]

DecLogValue(d) == [d EXCEPT !.log = Append(@, << "value", d.sv >>)]

DecLogKey(d) == [d EXCEPT !.log = Append(@, << "key", d.sk >>)]

\* The three comparisons of readHeader, each after its own reader.u8().
readHeaderPrefix(d) ==
  IF ~ReaderHas(d.data, d.x, 1) THEN Fail(d, ERR_UNEXPECTED_END)
  ELSE IF ReaderU8(d.data, d.x) # HEADER_BYTE_0
    THEN Fail(Advance(d, 1), ERR_INVALID_HEADER)
  ELSE IF ~ReaderHas(d.data, d.x + 1, 1)
    THEN Fail(Advance(d, 1), ERR_UNEXPECTED_END)
  ELSE IF ReaderU8(d.data, d.x + 1) # HEADER_BYTE_1
    THEN Fail(Advance(d, 2), ERR_INVALID_HEADER)
  ELSE IF ~ReaderHas(d.data, d.x + 2, 1)
    THEN Fail(Advance(d, 2), ERR_UNEXPECTED_END)
  ELSE IF ReaderU8(d.data, d.x + 2) # HEADER_BYTE_2
    THEN Fail(Advance(d, 3), ERR_INVALID_HEADER)
  ELSE Advance(d, 3)

\* readHeaderFlags without the check of the version.
readHeaderFlagsAnyVersion(d) ==
  IF d.err # "" THEN d
  ELSE IF ~ReaderHas(d.data, d.x, 1) THEN Fail(d, ERR_UNEXPECTED_END)
  ELSE [d EXCEPT !.x = @ + 1,
                 !.header =
                   [version |-> (ReaderU8(d.data, d.x) % 256) \div 16,
                    sharedStringValues |-> BitOf(ReaderU8(d.data, d.x), 1) = 1,
                    sharedPropertyNames |-> BitOf(ReaderU8(d.data, d.x), 0) = 1,
                    rawBinaryEnabled |-> BitOf(ReaderU8(d.data, d.x), 2) = 1]]

\* The rest of readHeader, on the decoder d after the prefix: the flags byte.
readHeaderFlags(d) ==
  IF d.err # "" THEN d
  ELSE IF ~ReaderHas(d.data, d.x, 1) THEN Fail(d, ERR_UNEXPECTED_END)
  ELSE IF (ReaderU8(d.data, d.x) % 256) \div 16 # 0
    THEN Fail(Advance(d, 1), ERR_UNSUPPORTED_VERSION)
  ELSE [d EXCEPT !.x = @ + 1,
                 !.header =
                   [version |-> 0,
                    sharedStringValues |-> BitOf(ReaderU8(d.data, d.x), 1) = 1,
                    sharedPropertyNames |-> BitOf(ReaderU8(d.data, d.x), 0) = 1,
                    rawBinaryEnabled |-> BitOf(ReaderU8(d.data, d.x), 2) = 1]]

readHeader(d) == readHeaderFlags(readHeaderPrefix(d))

DecAddSharedString(d, str) ==
  IF ~d.header.sharedStringValues THEN d
  ELSE [d EXCEPT !.sv = IF Len(@) >= maxSharedReferences
                          THEN Append(Tail(@), str) ELSE Append(@, str)]

DecAddSharedKey(d, key) ==
  IF ~d.header.sharedPropertyNames THEN d
  ELSE [d EXCEPT !.sk = IF Len(@) >= maxSharedReferences
                          THEN Append(Tail(@), key) ELSE Append(@, key)]

\* The string str, read up to cursor x, is added to the value table and returned.
GotString(d, x, str) == Return(DecAddSharedString(At(d, x), str), StrV(str))

\* The key, read up to cursor x, is added to the key table and returned.
GotKey(d, x, key) == Return(DecAddSharedKey(At(d, x), key), key)

\* reader.buf(length), decoded as text and added to the value table:
\* readFixedString and readFixedUtf8String.
readFixedString(d, length) ==
  IF ~ReaderHas(d.data, d.x, length) THEN Fail(d, ERR_UNEXPECTED_END)
  ELSE GotString(d, d.x + length, Utf8Decode(ReaderBuf(d.data, d.x, length)))

readFixedUtf8String(d, byteLength) == readFixedString(d, byteLength)

\* charLength calls of reader.u8(): the one that crosses the end throws.
readVariableUtf8String(d, charLength) ==
  IF ~ReaderHas(d.data, d.x, charLength)
    THEN Fail(At(d, Len(d.data)), ERR_UNEXPECTED_END)
  ELSE readFixedString(d, charLength)

\* readString after its readVInt returned n.
readStringOf(d, n) ==
  IF n.err # "" THEN Fail(At(d, n.x), n.err)
  ELSE readFixedString(At(d, n.x), n.val)

\* readString: a VInt length and that many bytes.
readString(d) == readStringOf(d, readVInt(d.data, d.x))

\* The bytes of a long string or key after its readVInt returned n: that many
\* bytes and the end marker.  val is the text.
readLongTextOf(d, n) ==
  IF n.err # "" THEN Fail(At(d, n.x), n.err)
  ELSE IF ~ReaderHas(d.data, n.x, n.val) THEN Fail(At(d, n.x), ERR_UNEXPECTED_END)
  ELSE IF ~ReaderHas(d.data, n.x + n.val, 1)
    THEN Fail(At(d, n.x + n.val), ERR_UNEXPECTED_END)
  ELSE IF ReaderU8(d.data, n.x + n.val) # END_STRING_MARKER
    THEN Fail(At(d, n.x + n.val + 1), ERR_INVALID_TOKEN)
  ELSE Return(At(d, n.x + n.val + 1), Utf8Decode(ReaderBuf(d.data, n.x, n.val)))

\* The end of readLongString, on the decoder r that read the text.
readLongStringEnd(r) ==
  IF r.err # "" THEN r ELSE GotString(r, r.x, r.val)

readLongString(d) == readLongStringEnd(readLongTextOf(d, readVInt(d.data, d.x)))

readFloat32(d) ==
  IF ~ReaderHas(d.data, d.x, 5) THEN Fail(d, ERR_UNEXPECTED_END)
  ELSE Return(Advance(d, 5), FloatV(decodeFloat32(ReaderBuf(d.data, d.x, 5))))

readFloat64(d) ==
  IF ~ReaderHas(d.data, d.x, 10) THEN Fail(d, ERR_UNEXPECTED_END)
  ELSE Return(Advance(d, 10), FloatV(decodeFloat64(ReaderBuf(d.data, d.x, 10))))

\* readBinary after its readVInt returned n.
readBinaryOf(d, n) ==
  IF n.err # "" THEN Fail(At(d, n.x), n.err)
  ELSE IF ~ReaderHas(d.data, n.x, n.val) THEN Fail(At(d, n.x), ERR_UNEXPECTED_END)
  ELSE Return(At(d, n.x + n.val),
              BinV(decodeSafeBinary(ReaderBuf(d.data, n.x, n.val), (n.val * 7) \div 8)))

readBinary(d) == readBinaryOf(d, readVInt(d.data, d.x))

\* readRawBinary after its readVInt returned n.
readRawBinaryOf(d, n) ==
  IF n.err # "" THEN Fail(At(d, n.x), n.err)
  ELSE IF ~ReaderHas(d.data, n.x, n.val) THEN Fail(At(d, n.x), ERR_UNEXPECTED_END)
  ELSE Return(At(d, n.x + n.val), BinV(ReaderBuf(d.data, n.x, n.val)))

readRawBinary(d) == readRawBinaryOf(d, readVInt(d.data, d.x))

readSharedString(d, index) ==
  IF index >= Len(d.sv) THEN Fail(d, ERR_INVALID_REFERENCE)
  ELSE Return(d, StrV(d.sv[index + 1]))

\* readLongSharedString after its readVInt returned n.
readLongSharedStringOf(d, n) ==
  IF n.err # "" THEN Fail(At(d, n.x), n.err)
  ELSE IF n.val + MIN_LONG_REFERENCE >= Len(d.sv)
    THEN Fail(At(d, n.x), ERR_INVALID_REFERENCE)
  ELSE Return(At(d, n.x), StrV(d.sv[n.val + MIN_LONG_REFERENCE + 1]))

readLongSharedString(d) == readLongSharedStringOf(d, readVInt(d.data, d.x))

readSharedKey(d, index) ==
  IF index >= Len(d.sk) THEN Fail(d, ERR_INVALID_REFERENCE)
  ELSE Return(d, d.sk[index + 1])

\* (highByte << 8) | lowByte + 64: the sum binds before the or.
LongSharedKeyIndex(highByte, lowByte) ==
  IF lowByte + 64 >= 256 /\ highByte % 2 = 1
    THEN highByte * 256 + (lowByte + 64 - 256)
    ELSE highByte * 256 + (lowByte + 64)

\* reader.buf(length) decoded as text and added to the key table.
readFixedKey(d, length) ==
  IF ~ReaderHas(d.data, d.x, length) THEN Fail(d, ERR_UNEXPECTED_END)
  ELSE GotKey(d, d.x + length, Utf8Decode(ReaderBuf(d.data, d.x, length)))

\* length calls of reader.u8(): the one that crosses the end throws.
readVariableKey(d, length) ==
  IF ~ReaderHas(d.data, d.x, length)
    THEN Fail(At(d, Len(d.data)), ERR_UNEXPECTED_END)
  ELSE readFixedKey(d, length)

\* The end of readLongKey, on the decoder r that read the text.
readLongKeyEnd(r) ==
  IF r.err # "" THEN r ELSE GotKey(r, r.x, r.val)

readLongKey(d) == readLongKeyEnd(readLongTextOf(d, readVInt(d.data, d.x)))

\* The branches of readKeyByToken, with the cursor after the token.
readKeyDispatch(d, token) ==
  IF token = K_EMPTY_STRING THEN Return(d, << >>)
  ELSE IF token >= K_SHORT_SHARED_MIN /\ token <= K_SHORT_SHARED_MAX
    THEN readSharedKey(d, token - K_SHORT_SHARED_MIN)
  ELSE IF token >= K_LONG_SHARED_MIN /\ token <= K_LONG_SHARED_MAX
    THEN IF ~ReaderHas(d.data, d.x, 1) THEN Fail(d, ERR_UNEXPECTED_END)
         ELSE readSharedKey(Advance(d, 1),
                LongSharedKeyIndex(token - K_LONG_SHARED_MIN, ReaderU8(d.data, d.x)))
  ELSE IF token >= K_SHORT_ASCII_MIN /\ token <= K_SHORT_ASCII_MAX
    THEN readFixedKey(d, token - K_SHORT_ASCII_MIN + 1)
  ELSE IF token >= K_SHORT_UNICODE_MIN /\ token <= K_SHORT_UNICODE_MAX
    THEN readVariableKey(d, token - K_SHORT_UNICODE_MIN + 1)
  ELSE IF token = K_LONG_UNICODE_NAME THEN readLongKey(d)
  ELSE Fail(d, ERR_INVALID_TOKEN)

\* The key table is logged after a key token that was read.
KeyRead(r) == IF r.err = "" THEN DecLogKey(r) ELSE r

\* readKeyByToken, with the cursor after the token; val is the key.
readKeyByToken(d, token) == KeyRead(readKeyDispatch(d, token))

\* obj[key] = value, on the entries of obj.
SetEntry(entries, key, value) ==
  IF \E i \in 1..Len(entries) : entries[i][1] = key
    THEN [i \in 1..Len(entries) |->
            IF entries[i][1] = key THEN << key, value >> ELSE entries[i]]
    ELSE Append(entries, << key, value >>)

readByTokenRange(d, token) ==
  IF token >= TINY_ASCII_MIN /\ token <= TINY_ASCII_MAX
    THEN Return(d, StrV(<< token - TINY_ASCII_MIN + 32 >>))
  ELSE IF token >= SHORT_ASCII_MIN /\ token <= SHORT_ASCII_MAX
    THEN readFixedString(d, token - SHORT_ASCII_MIN + 2)
  ELSE IF token >= TINY_UNICODE_MIN /\ token <= TINY_UNICODE_MAX
    THEN readFixedUtf8String(d, token - TINY_UNICODE_MIN + 2)
  ELSE IF token >= SHORT_UNICODE_MIN /\ token <= SHORT_UNICODE_MAX
    THEN readVariableUtf8String(d, token - SHORT_UNICODE_MIN + 2)
  ELSE IF token >= SMALL_INT_MIN /\ token <= SMALL_INT_MAX
    THEN Return(d, IntV(token - SMALL_INT_MIN - 16))
  ELSE Fail(d, ERR_INVALID_TOKEN)

\* zigzagDecode(readVInt(this.reader)) after readVInt returned n.
readIntOf(d, n) ==
  IF n.err # "" THEN Fail(At(d, n.x), n.err)
  ELSE Return(At(d, n.x), [t |-> "int", v |-> zigzagDecode(n.val)])

readInt(d) == readIntOf(d, readVInt(d.data, d.x))

\* The value table is logged after a string token that was read.
ValueRead(r) == IF r.err = "" /\ r.val.t = "str" THEN DecLogValue(r) ELSE r

RECURSIVE readValueByToken(_, _)
RECURSIVE readArrayLoop(_, _)
RECURSIVE readObjectLoop(_, _)

\* val() taking the end of the input for a null.
valAtEndNull(d) ==
  IF ~ReaderHas(d.data, d.x, 1) THEN Return(d, NullV)
  ELSE readValueByToken(Advance(d, 1), ReaderU8(d.data, d.x))

\* val(): a token and the value it starts.
val(d) ==
  IF ~ReaderHas(d.data, d.x, 1) THEN Fail(d, ERR_UNEXPECTED_END)
  ELSE readValueByToken(Advance(d, 1), ReaderU8(d.data, d.x))

\* arr.push of the value the decoder r read, and the next turn of the loop.
readArrayPush(r, arr) ==
  IF r.err # "" THEN r ELSE readArrayLoop(r, Append(arr, r.val))

\* The loop of readArray, with the items read so far.
readArrayLoop(d, arr) ==
  IF ~ReaderHas(d.data, d.x, 1) THEN Fail(d, ERR_UNEXPECTED_END)
  ELSE IF ReaderU8(d.data, d.x) = END_ARRAY THEN Return(Advance(d, 1), ArrV(arr))
  ELSE readArrayPush(readValueByToken(Advance(d, 1), ReaderU8(d.data, d.x)), arr)

readArray(d) == readArrayLoop(d, << >>)

\* obj[key] = value of the value the decoder r read, and the next turn of the loop.
readObjectSet(r, obj, key) ==
  IF r.err # "" THEN r ELSE readObjectLoop(r, SetEntry(obj, key, r.val))

\* this.val() after the decoder k read a key.
readObjectValue(k, obj) ==
  IF k.err # "" THEN k ELSE readObjectSet(val(k), obj, k.val)

\* The loop of readObject, with the entries set so far.
readObjectLoop(d, obj) ==
  IF ~ReaderHas(d.data, d.x, 1) THEN Fail(d, ERR_UNEXPECTED_END)
  ELSE IF ReaderU8(d.data, d.x) = END_OBJECT THEN Return(Advance(d, 1), ObjV(obj))
  ELSE readObjectValue(readKeyByToken(Advance(d, 1), ReaderU8(d.data, d.x)), obj)

readObject(d) == readObjectLoop(d, << >>)

\* The branches of readValueByToken, with the cursor after the token.
readValueDispatch(d, token) ==
  IF token >= SHORT_SHARED_VALUE_MIN /\ token <= SHORT_SHARED_VALUE_MAX
    THEN readSharedString(d, token - SHORT_SHARED_VALUE_MIN)
  ELSE CASE token = V_EMPTY_STRING -> Return(d, StrV(<< >>))
         [] token = V_NULL -> Return(d, NullV)
         [] token = V_FALSE -> Return(d, BoolV(FALSE))
         [] token = V_TRUE -> Return(d, BoolV(TRUE))
         [] token = V_INT_32 -> readInt(d)
         [] token = V_INT_64 -> readInt(d)
         [] token = V_BIG_INTEGER -> readString(d)
         [] token = V_FLOAT_32 -> readFloat32(d)
         [] token = V_FLOAT_64 -> readFloat64(d)
         [] token = LONG_ASCII_TEXT -> readLongString(d)
         [] token = LONG_UNICODE_TEXT -> readLongString(d)
         [] token = BINARY_7BIT -> readBinary(d)
         [] token = BINARY_RAW -> readRawBinary(d)
         [] token = SHARED_STRING_LONG -> readLongSharedString(d)
         [] token = START_ARRAY -> readArray(d)
         [] token = START_OBJECT -> readObject(d)
         [] OTHER -> readByTokenRange(d, token)

readValueByToken(d, token) == ValueRead(readValueDispatch(d, token))

\* this.val() after readHeader, on the decoder d that read the header.
decodeValue(d) == IF d.err # "" THEN d ELSE val(d)

\* decode(uint8): reader.reset, readHeader, val.
decode(dec, uint8) ==
  decodeValue(readHeader([dec EXCEPT !.data = uint8, !.x = 0, !.err = "",
                                     !.val = NullV, !.log = << >>]))

(***************************************************************************)
(* Equivalence of values: the same type and the same content; the entries  *)
(* of an object are compared by key, whatever their order.                 *)
(***************************************************************************)
RECURSIVE Equiv(_, _)
Equiv(a, b) ==
  /\ a.t = b.t
  /\ CASE a.t = "arr" ->
            /\ Len(a.v) = Len(b.v)
            /\ \A i \in 1..Len(a.v) : Equiv(a.v[i], b.v[i])
       [] a.t = "obj" ->
            /\ Len(a.v) = Len(b.v)
            /\ \A i \in 1..Len(a.v) : \E j \in 1..Len(b.v) :
                 a.v[i][1] = b.v[j][1] /\ Equiv(a.v[i][2], b.v[j][2])
       [] OTHER -> a.v = b.v

(***************************************************************************)
(* The values and the options the encoder is driven with.                  *)
(***************************************************************************)
\* A string of n ASCII letters.
AsciiOf(n) == [i \in 1..n |-> 97]

\* A string whose UTF-8 form has n bytes (n >= 2), the first character of two.
MultiOf(n) == << 233 >> \o AsciiOf(n - 2)

\* 0.5, a number a float32 holds exactly.
Half == << 0 >> \o BitsOf(1022, 11) \o Zeros(52)

\* A number near 3.1, which no float32 holds exactly.
Wide == << 0 >> \o BitsOf(1024, 11) \o BitsOf(9, 4) \o Ones(48)

MinusInfinity == << 1 >> \o Ones(11) \o Zeros(52)

\* 2^40, a safe integer above 32 bits.
TwoTo40 == [t |-> "int", v |-> [neg |-> FALSE, mag |-> << 0, 0, 256, 0 >>]]

Values ==
  << NullV, BoolV(TRUE), BoolV(FALSE),
     IntV(0), IntV(0 - 16), IntV(15), IntV(16), IntV(0 - 17), IntV(123456),
     IntV(Pow2(30)), TwoTo40,
     FloatV(Half), FloatV(Wide), FloatV(CanonicalNaN), FloatV(MinusInfinity),
     StrV(<< >>), StrV(<< 48 >>), StrV(<< 65 >>), StrV(<< 97 >>), StrV(<< 97, 98 >>),
     StrV(<< 233 >>), StrV(<< 99, 97, 102, 233 >>),
     StrV(AsciiOf(31)), StrV(AsciiOf(32)), StrV(AsciiOf(33)),
     StrV(AsciiOf(64)), StrV(AsciiOf(65)),
     StrV(MultiOf(31)), StrV(MultiOf(32)), StrV(MultiOf(33)),
     StrV(MultiOf(64)), StrV(MultiOf(65)),
     BinV(<< >>), BinV(<< 255 >>), BinV(<< 1, 2, 3, 4, 5, 6, 7 >>),
     BinV(<< 1, 2, 3, 4, 5, 6, 7, 128 >>),
     ArrV(<< >>), ArrV(<< IntV(1), StrV(<< 97, 98 >>), NullV >>),
     ArrV(<< StrV(<< 48 >>), StrV(<< 48 >>) >>),
     ArrV(<< StrV(<< 97, 98 >>), StrV(<< 97, 98 >>) >>),
     ArrV(<< StrV(AsciiOf(65)), StrV(<< 97, 98 >>), StrV(<< 97, 98 >>) >>),
     ObjV(<< >>), ObjV(<< << << 110 >>, IntV(1) >> >>),
     ObjV(<< << << 110 >>, ArrV(<< BoolV(TRUE) >>) >>, << << >>, StrV(<< 97, 98 >>) >> >>),
     ArrV(<< ObjV(<< << << 110 >>, IntV(1) >> >>), ObjV(<< << << 110 >>, IntV(2) >> >>) >>),
     ObjV(<< << << 233 >>, IntV(1) >> >>) >>

Options ==
  [sharedStringValues : BOOLEAN, sharedPropertyNames : BOOLEAN, rawBinaryEnabled : BOOLEAN]

\* The options of an encoder made without options.
DefaultOptions ==
  [sharedStringValues |-> FALSE, sharedPropertyNames |-> TRUE, rawBinaryEnabled |-> FALSE]

\* The encoder after its constructor: empty tables, the header in the writer.
NewEncoder(opt) ==
  writeHeader(opt, [out |-> << >>, sv |-> << >>, sk |-> << >>, log |-> << >>])

\* The decoder after its constructor: empty tables, no header read yet.
NewDecoder ==
  [data |-> << >>, x |-> 0,
   header |-> [version |-> 0, sharedStringValues |-> FALSE,
               sharedPropertyNames |-> FALSE, rawBinaryEnabled |-> FALSE],
   sv |-> << >>, sk |-> << >>, log |-> << >>, err |-> "", val |-> NullV]

\* encode(value): writeAny, then what writer.flush() returns is in out.
encode(opt, e, value) == writeAny(opt, [e EXCEPT !.log = << >>], value)

(***************************************************************************)
(* The state: one encoder and one decoder, each used for several calls.    *)
(***************************************************************************)
MaxCalls == 2

VARIABLES
  options,    \* the options the encoder was made with
  enc,        \* the encoder, its writer flushed after each call
  encCalls,   \* the encode calls made
  encEntry,   \* the encoder as the last encode call found it
  value,      \* the value of the last encode call
  wire,       \* the bytes the last encode call returned
  dec,        \* the decoder after its last call
  decCalls,   \* the decode calls made
  decEntry,   \* the decoder as the last decode call found it
  full,       \* the document the last decode input was cut from
  ref,        \* the shared reference of the last decode input, if it was made of one
  vint,       \* a number, the bytes writeVInt wrote for it, what readVInt read
  cbor,       \* the last call of the CBOR encoder or decoder and what it gave
  json        \* the last call of the JSON decoders and what it gave

\* What the Smile encoder and decoder do not touch.
others == << vint, cbor, json >>

vars == << options, enc, encCalls, encEntry, value, wire, dec, decCalls, decEntry,
           full, ref, others >>

\* No number given to writeVInt yet.
NoVInt == [stage |-> "none", n |-> << 0, 0, 0, 0 >>, bytes |-> << >>,
           read |-> [err |-> "", val |-> 0, x |-> 0]]

\* Nothing but the Smile encoder and decoder is in use.
\* No call of the CBOR encoder or decoder yet: host tells whether the host is
\* little-endian, d is the decoder after the call, at the value at its cursor.
NoCbor ==
  [op |-> "none", host |-> TRUE, value |-> NullV, wire |-> << >>, path |-> << >>,
   offset |-> 0, size |-> 0,
   d |-> [data |-> << >>, x |-> 0, err |-> "", val |-> NullV, n |-> 0],
   at |-> [data |-> << >>, x |-> 0, err |-> "", val |-> NullV, n |-> 0]]

\* No call of the JSON decoders yet: doc and text tell the text given, d is
\* the decoder after the call.
NoJson ==
  [op |-> "none", doc |-> 0, text |-> << >>,
   d |-> [data |-> << >>, x |-> 0, err |-> "", val |-> NullV]]

Idle == vint = NoVInt /\ cbor = NoCbor /\ json = NoJson

NoRef == [kind |-> "none", index |-> 0]

\* The decoder as a decode call finds it: what the last call left in its tables
\* and its header; the call resets the rest.
Entry(d) == [d EXCEPT !.data = << >>, !.x = 0, !.err = "", !.val = NullV, !.log = << >>]

\* A new encoder, made with any options, and a new decoder.
InitCodec ==
  /\ options \in Options
  /\ enc = NewEncoder(options)
  /\ encCalls = 0
  /\ encEntry = NewEncoder(options)
  /\ value = NullV
  /\ wire = << >>
  /\ dec = NewDecoder
  /\ decCalls = 0
  /\ decEntry = Entry(NewDecoder)
  /\ full = << >>
  /\ ref = NoRef

Init == InitCodec /\ Idle

\* The encoder, the decoder and what is recorded of their calls.
codec == << options, enc, encCalls, encEntry, value, wire, dec, decCalls, decEntry,
            full, ref >>

\* encoder.encode(Values[i])
Encode(i) ==
  /\ encCalls < MaxCalls
  /\ decCalls = encCalls
  /\ LET e == encode(options, enc, Values[i])
     IN /\ wire' = e.out
        /\ enc' = [e EXCEPT !.out = << >>]
  /\ encEntry' = enc
  /\ value' = Values[i]
  /\ encCalls' = encCalls + 1
  /\ UNCHANGED << options, dec, decCalls, decEntry, full, ref, others >>

\* decoder.decode(wire), on the bytes the last encode call returned
Decode ==
  /\ decCalls < encCalls
  /\ dec' = decode(dec, wire)
  /\ decEntry' = Entry(dec)
  /\ decCalls' = decCalls + 1
  /\ full' = wire
  /\ UNCHANGED << options, enc, encCalls, encEntry, value, wire, ref, others >>

Next ==
  \/ \E i \in 1..Len(Values) : Encode(i)
  \/ Decode

Spec == Init /\ [][Next]_vars

(***************************************************************************)
(* Properties of the encoder and of the decoding of what it returns.       *)
(***************************************************************************)
\* The first document of a new encoder has been decoded by a new decoder.
FirstRoundTrip == encCalls = 1 /\ decCalls = 1

\* The decoder returned a value equivalent to the value encoded.
RoundTripped == dec.err = "" /\ Equiv(dec.val, value)

\* C1: for every supported value and every combination of encoder options,
\* decoding the bytes a new encoder returns for the value gives an equivalent
\* value.
C1_RoundTrip == FirstRoundTrip => RoundTripped

\* C2: when an encode call starts, the shared value table and the shared key
\* table of the encoder are empty, whatever was encoded before.
C2_TablesEmptyAtEncode ==
  encCalls >= 1 => (encEntry.sv = << >> /\ encEntry.sk = << >>)

\* C4: the bytes every encode call returns, the first and the later ones, start
\* with the header 0x3A 0x29 0x0A and the flags byte.
C4_HeaderOnEveryEncode ==
  encCalls >= 1 =>
    IsPrefix(<< HEADER_BYTE_0, HEADER_BYTE_1, HEADER_BYTE_2, HeaderFlags(options) >>, wire)

\* C5: decoding a document of the encoder, the shared table of the decoder after
\* each string or key token it reads is the table the encoder had after writing
\* that token, and no reference of the encoder raises InvalidReference.
C5_TablesInStep ==
  FirstRoundTrip => (IsPrefix(dec.log, enc.log) /\ dec.err # ERR_INVALID_REFERENCE)

BoundaryLengths == {1, 31, 32, 33, 64, 65}

\* C10: a string whose UTF-8 form has 1, 31, 32, 33, 64 or 65 bytes, ASCII or
\* not, is returned unchanged by decode(encode(s)).
C10_BoundaryStrings ==
  (/\ FirstRoundTrip
   /\ value.t = "str"
   /\ Len(Utf8Encode(value.v)) \in BoundaryLengths) => RoundTripped

(***************************************************************************)
(* The decoder on documents of any origin: whole ones and cut ones.        *)
(***************************************************************************)
Hdr(flags) == << HEADER_BYTE_0, HEADER_BYTE_1, HEADER_BYTE_2, flags >>

\* Documents with a wrong, cut or valid header, with shared references, with
\* VInts of several lengths, and the documents an encoder with the default
\* options returns for a string of 33 letters, the string "e-acute", 8 bytes,
\* [1, "ab", null], {n: [true], "": "ab"}, a float64 and 123456.
Documents ==
  << << >>, << 58 >>, << 58, 41, 10 >>,
     << 0, 41, 10, 0, 33 >>, << 58, 0, 10, 0, 33 >>, << 58, 41, 11, 0, 33 >>,
     Hdr(16) \o << 33 >>, Hdr(240) \o << 33 >>,
     Hdr(0) \o << 33 >>,
     Hdr(1) \o << 250, 128, 97, 33, 251 >>, Hdr(1) \o << 250, 64, 33, 251 >>,
     Hdr(2) \o << 96, 97, 98 >>, Hdr(2) \o << 1 >>, Hdr(2) \o << 236, 128 >>,
     Hdr(1) \o << 250, 48, 0, 33, 251 >>,
     Hdr(0) \o << 36, 1, 129 >>,
     Hdr(0) \o << 36 >> \o Zeros(11) \o << 130 >>,
     Hdr(0) \o << 36 >> \o Zeros(12),
     Hdr(0) \o << 232 >> \o Zeros(10) \o << 128 >>,
     Hdr(1) \o << 224, 161 >> \o AsciiOf(33) \o << 252 >>,
     Hdr(1) \o << 128, 195, 169 >>,
     Hdr(1) \o << 232, 138, 0, 64, 64, 48, 32, 20, 12, 7, 64, 0 >>,
     Hdr(1) \o << 248, 209, 96, 97, 98, 33, 249 >>,
     Hdr(1) \o << 250, 128, 110, 248, 35, 249, 32, 96, 97, 98, 251 >>,
     Hdr(1) \o << 41, 32, 2, 63, 127, 127, 127, 127, 127, 127, 64 >>,
     Hdr(1) \o << 36, 30, 18, 128 >> >>

MaxDecodes == 2

\* A new encoder and a new decoder, made without options.
InitDec == Init /\ options = DefaultOptions

\* decoder.decode(Documents[k])
DecodeDocument(k) ==
  /\ decCalls < MaxDecodes
  /\ dec' = decode(dec, Documents[k])
  /\ decEntry' = Entry(dec)
  /\ decCalls' = decCalls + 1
  /\ full' = Documents[k]
  /\ ref' = NoRef
  /\ UNCHANGED << options, enc, encCalls, encEntry, value, wire, others >>

\* decoder.decode of the first n bytes of Documents[k]
DecodeTruncated(k, n) ==
  /\ decCalls < MaxDecodes
  /\ dec' = decode(dec, SubSeq(Documents[k], 1, n))
  /\ decEntry' = Entry(dec)
  /\ decCalls' = decCalls + 1
  /\ full' = Documents[k]
  /\ ref' = NoRef
  /\ UNCHANGED << options, enc, encCalls, encEntry, value, wire, others >>

NextDec ==
  \/ \E k \in 1..Len(Documents) : DecodeDocument(k)
  \/ \E k \in 1..Len(Documents) : \E n \in 0..(Len(Documents[k]) - 1) :
       DecodeTruncated(k, n)

SpecDec == InitDec /\ [][NextDec]_vars

\* Two decode calls end alike: the same error, or equivalent values.
SameOutcome(a, b) == a.err = b.err /\ (a.err = "" => Equiv(a.val, b.val))

\* C3: what the decoder returns for a document depends on the document only:
\* a decoder that decoded other documents before returns what a new decoder
\* returns, so no string of an earlier document comes back through a reference.
C3_DependsOnDocumentOnly ==
  decCalls >= 1 => SameOutcome(dec, decode(NewDecoder, dec.data))

\* The input starts with 0x3A 0x29 0x0A.
HasHeaderPrefix(data) == IsPrefix(<< HEADER_BYTE_0, HEADER_BYTE_1, HEADER_BYTE_2 >>, data)

\* The input starts with the prefix and a fourth byte whose bits 4-7 are 0.
HeaderValid(data) ==
  HasHeaderPrefix(data) /\ Len(data) >= 4 /\ (data[4] % 256) \div 16 = 0

\* The error of the header check: InvalidHeader for a wrong prefix, else
\* UnsupportedVersion, with no value token read.
HeaderRejected ==
  /\ dec.err = (IF HasHeaderPrefix(dec.data) THEN ERR_UNSUPPORTED_VERSION
                ELSE ERR_INVALID_HEADER)
  /\ dec.x <= 4

\* C7, as stated: decode returns a value only for an input with a valid header,
\* and fails for every other input with InvalidHeader or UnsupportedVersion
\* before a value token is read.
C7_HeaderChecked ==
  (decCalls >= 1 /\ ~HeaderValid(dec.data)) => HeaderRejected

\* C7, amended: decode returns a value only for an input with a valid header;
\* an input of four bytes or more without one fails with InvalidHeader or
\* UnsupportedVersion before a value token is read; a shorter input fails.
C7_HeaderCheckedFourBytes ==
  (decCalls >= 1 /\ ~HeaderValid(dec.data)) =>
    IF Len(dec.data) >= 4 THEN HeaderRejected ELSE dec.err # "" /\ dec.x <= 3

\* A decode call rejected a version that is not 0.
C7_Witness ==
  /\ decCalls >= 1
  /\ Len(dec.data) >= 4
  /\ HasHeaderPrefix(dec.data)
  /\ ~HeaderValid(dec.data)
  /\ dec.err = ERR_UNSUPPORTED_VERSION

\* The decoder read the whole of the document and returned a value.
Complete(r, document) == r.err = "" /\ r.x = Len(document)

\* The last input was a document cut after its header and before its end, a
\* document the decoder reads whole from the same tables.
Truncated ==
  /\ decCalls >= 1
  /\ Len(dec.data) >= 4
  /\ Len(dec.data) < Len(full)
  /\ Complete(decode(decEntry, full), full)

MaxVIntBytes == 10

\* The document is a valid header and an integer token.
IsIntDocument(data) ==
  HeaderValid(data) /\ Len(data) >= 5 /\ data[5] \in {V_INT_32, V_INT_64}

\* None of the first MaxVIntBytes bytes after the token ends the VInt.
NoTerminator(data) ==
  /\ Len(data) >= 5 + MaxVIntBytes
  /\ \A i \in 6..(5 + MaxVIntBytes) : data[i] < 128

\* C9: readVInt reads at most a fixed number of bytes; with no terminator byte
\* among them, decoding fails with MalformedVInt.
C9_VIntBounded ==
  (decCalls >= 1 /\ IsIntDocument(dec.data)) =>
    /\ dec.x - 5 <= MaxVIntBytes
    /\ NoTerminator(dec.data) => dec.err = ERR_MALFORMED_VINT

(***************************************************************************)
(* The decoder on shared references: documents that fill its tables, then  *)
(* documents made of one reference, as the encoder writes it for an index. *)
(***************************************************************************)
KeysPerDocument == 11

MaxRefDecodes == 25

\* A writer with nothing in it.
EmptyWriter == [out |-> << >>, sv |-> << >>, sk |-> << >>, log |-> << >>]

\* An object of KeysPerDocument entries, each a key of two letters and a string
\* of two letters, under a header with both tables on.
KeysDocument ==
  Hdr(3) \o << START_OBJECT >>
    \o Flatten([i \in 1..KeysPerDocument |-> << 129, 107, 48 + i, 96, 118, 48 + i >>])
    \o << END_OBJECT >>

\* The references the decoder is given: the table and the index written.
References ==
  << [kind |-> "value", index |-> 0], [kind |-> "value", index |-> 30],
     [kind |-> "value", index |-> 32], [kind |-> "value", index |-> 33],
     [kind |-> "value", index |-> 263], [kind |-> "value", index |-> 264],
     [kind |-> "value", index |-> 300],
     [kind |-> "key", index |-> 0], [kind |-> "key", index |-> 33],
     [kind |-> "key", index |-> 63], [kind |-> "key", index |-> 64],
     [kind |-> "key", index |-> 255], [kind |-> "key", index |-> 263],
     [kind |-> "key", index |-> 264], [kind |-> "key", index |-> 319],
     [kind |-> "key", index |-> 512], [kind |-> "key", index |-> 600] >>

\* The document of one reference: the value itself, or the key of an entry.
ReferenceDocument(r) ==
  IF r.kind = "value"
    THEN Hdr(3) \o tryWriteSharedString(EmptyWriter, r.index).out
    ELSE Hdr(3) \o << START_OBJECT >> \o tryWriteSharedKey(EmptyWriter, r.index).out
           \o << V_NULL, END_OBJECT >>

\* decoder.decode(KeysDocument)
DecodeKeys ==
  /\ decCalls < MaxRefDecodes
  /\ dec' = decode(dec, KeysDocument)
  /\ decEntry' = Entry(dec)
  /\ decCalls' = decCalls + 1
  /\ full' = KeysDocument
  /\ ref' = NoRef
  /\ UNCHANGED << options, enc, encCalls, encEntry, value, wire, others >>

\* decoder.decode of the document of References[j]
DecodeReference(j) ==
  /\ decCalls < MaxRefDecodes
  /\ dec' = decode(dec, ReferenceDocument(References[j]))
  /\ decEntry' = Entry(dec)
  /\ decCalls' = decCalls + 1
  /\ full' = ReferenceDocument(References[j])
  /\ ref' = References[j]
  /\ UNCHANGED << options, enc, encCalls, encEntry, value, wire, others >>

NextRefs ==
  \/ DecodeKeys
  \/ \E j \in 1..Len(References) : DecodeReference(j)

SpecRefs == InitDec /\ [][NextRefs]_vars

\* The size of the table the last reference points into, as the call found it.
ReferencedTableSize ==
  IF ref.kind = "value" THEN Len(decEntry.sv) ELSE Len(decEntry.sk)

\* C6: decoding a shared value or key reference, short or long, whose index is
\* not below the size of the table of the decoder fails with InvalidReference.
C6_InvalidReference ==
  (decCalls >= 1 /\ ref.kind # "none" /\ ref.index >= ReferencedTableSize) =>
    dec.err = ERR_INVALID_REFERENCE

(***************************************************************************)
(* Binary values in the 7-bit mode: a new encoder without rawBinaryEnabled *)
(* encodes a byte array, a new decoder decodes what it returned.           *)
(***************************************************************************)
\* The longest byte array encoded.
MaxBinLen == 8

\* Bytes with the first bit, the last bit, all bits and no bit set.
BinBytes == {0, 129, 255}

BinArrays == UNION {[1..n -> BinBytes] : n \in 0..MaxBinLen}

\* new SmileEncoder().encode(b), for a Uint8Array b
EncodeBin(b) ==
  /\ encCalls = 0
  /\ LET e == encode(options, enc, BinV(b))
     IN /\ wire' = e.out
        /\ enc' = [e EXCEPT !.out = << >>]
  /\ encEntry' = enc
  /\ value' = BinV(b)
  /\ encCalls' = encCalls + 1
  /\ UNCHANGED << options, dec, decCalls, decEntry, full, ref, others >>

NextBin ==
  \/ \E b \in BinArrays : EncodeBin(b)
  \/ Decode

SpecBin == InitDec /\ [][NextBin]_vars

\* C11: in the 7-bit mode, decoding what a new encoder returns for a byte array,
\* of length 0 or more, a multiple of 7 or not, gives a byte array with the same
\* bytes.
C11_BinaryRoundTrip ==
  (FirstRoundTrip /\ value.t = "bin" /\ ~options.rawBinaryEnabled) => RoundTripped

\* A byte array of a length that 7 does not divide came back.
C11_Witness ==
  /\ FirstRoundTrip
  /\ value.t = "bin"
  /\ Len(value.v) = MaxBinLen
  /\ \E i \in 1..Len(value.v) : value.v[i] = 129
  /\ wire[5] = BINARY_7BIT
  /\ RoundTripped

(***************************************************************************)
(* writeVInt and readVInt on their own: a number is written, the bytes are *)
(* read back.                                                              *)
(***************************************************************************)
\* The numbers written are 2^j - 1, 2^j and 2^j + 1 for j up to MaxVIntExp.
MaxVIntExp == 53

\* The magnitude 2^j, for j below 64.
BigPow2(j) == [i \in 1..4 |-> IF i = j \div 16 + 1 THEN Pow2(j % 16) ELSE 0]

\* m + 1, for m below 2^64 - 1.
BigPlus1(m) ==
  IF m[1] < Limb - 1 THEN << m[1] + 1, m[2], m[3], m[4] >>
  ELSE IF m[2] < Limb - 1 THEN << 0, m[2] + 1, m[3], m[4] >>
  ELSE IF m[3] < Limb - 1 THEN << 0, 0, m[3] + 1, m[4] >>
  ELSE << 0, 0, 0, m[4] + 1 >>

VIntInputs ==
  UNION {{BigMinus1(BigPow2(j)), BigPow2(j), BigPlus1(BigPow2(j))} : j \in 0..MaxVIntExp}

InitVInt ==
  /\ InitCodec
  /\ options = DefaultOptions
  /\ vint \in {[NoVInt EXCEPT !.stage = "given", !.n = n] : n \in VIntInputs}
  /\ cbor = NoCbor
  /\ json = NoJson

\* writeVInt(writer, n)
WriteVInt ==
  /\ vint.stage = "given"
  /\ vint' = [vint EXCEPT !.stage = "written", !.bytes = writeVInt(vint.n)]
  /\ UNCHANGED << codec, cbor, json >>

\* readVInt(reader), the reader at the first of the bytes written
ReadVInt ==
  /\ vint.stage = "written"
  /\ vint' = [vint EXCEPT !.stage = "read", !.read = readVInt(vint.bytes, 0)]
  /\ UNCHANGED << codec, cbor, json >>

NextVInt == WriteVInt \/ ReadVInt

SpecVInt == InitVInt /\ [][NextVInt]_vars

\* C12: for a number n from 0 to 2^54 - 1, readVInt on the bytes writeVInt wrote
\* for n returns n.
C12_VIntRoundTrip ==
  vint.stage = "read" =>
    /\ vint.read.err = ""
    /\ BigFitsInt(vint.n)
    /\ vint.read.val = BigToInt(vint.n)

(***************************************************************************)
(* cbor/constants.ts                                                       *)
(***************************************************************************)
MAJOR_UIN == 0
MAJOR_NIN == 1
MAJOR_BIN == 2
MAJOR_STR == 3
MAJOR_ARR == 4
MAJOR_MAP == 5
MAJOR_TAG == 6
MAJOR_TKN == 7

CONST_MINOR_MASK == 31
CONST_END == 255

UNEXPECTED_MAJOR == "UNEXPECTED_MAJOR"
UNEXPECTED_MINOR == "UNEXPECTED_MINOR"
UNEXPECTED_BIN_CHUNK_MAJOR == "UNEXPECTED_BIN_CHUNK_MAJOR"
UNEXPECTED_BIN_CHUNK_MINOR == "UNEXPECTED_BIN_CHUNK_MINOR"
UNEXPECTED_STR_CHUNK_MAJOR == "UNEXPECTED_STR_CHUNK_MAJOR"
UNEXPECTED_STR_CHUNK_MINOR == "UNEXPECTED_STR_CHUNK_MINOR"
UNEXPECTED_OBJ_BREAK == "UNEXPECTED_OBJ_BREAK"
INVALID_SIZE == "INVALID_SIZE"
KEY_NOT_FOUND == "KEY_NOT_FOUND"
INDEX_OUT_OF_BOUNDS == "INDEX_OUT_OF_BOUNDS"

TAG_UINT8 == 64
TAG_UINT16_BE == 65
TAG_UINT32_BE == 66
TAG_UINT64_BE == 67
TAG_UINT8_CLAMPED == 68
TAG_UINT16_LE == 69
TAG_UINT32_LE == 70
TAG_UINT64_LE == 71
TAG_SINT8 == 72
TAG_SINT16_BE == 73
TAG_SINT32_BE == 74
TAG_SINT64_BE == 75
TAG_SINT16_LE == 77
TAG_SINT32_LE == 78
TAG_SINT64_LE == 79
TAG_FLOAT16_BE == 80
TAG_FLOAT32_BE == 81
TAG_FLOAT64_BE == 82
TAG_FLOAT128_BE == 83
TAG_FLOAT16_LE == 84
TAG_FLOAT32_LE == 85
TAG_FLOAT64_LE == 86
TAG_FLOAT128_LE == 87

\* The messages of the errors readTypedArrayTag throws, without the tag number.
ERR_UNSUPPORTED_FLOAT == "Unsupported floating point format"
ERR_UNKNOWN_TYPED_ARRAY_TAG == "Unknown typed array tag"

(***************************************************************************)
(* CBOR values.  Besides the values of JSON: "num" (v an integer), "undef", *)
(* "typed" (v the constructor and the elements of a typed array, each      *)
(* element the bytes of its value, most significant first), "date" (v the  *)
(* local calendar day of a Date, in days from 1970-01-01, and its hour),   *)
(* "ext" (v the tag and the value of a JsonPackExtension).                 *)
(***************************************************************************)
NumV(n) == [t |-> "num", v |-> n]
UndefV == [t |-> "undef", v |-> 0]
TypedV(kind, elements) == [t |-> "typed", v |-> [kind |-> kind, elements |-> elements]]
DateV(day, hour) == [t |-> "date", v |-> [day |-> day, hour |-> hour]]
ExtV(tag, v) == [t |-> "ext", v |-> [tag |-> tag, val |-> v]]

\* The typed arrays of more than one byte an element, and the bytes of one.
ElementSize ==
  [Int16Array |-> 2, Uint16Array |-> 2, Int32Array |-> 4, Uint32Array |-> 4,
   Float32Array |-> 4, Float64Array |-> 8, BigInt64Array |-> 8, BigUint64Array |-> 8,
   Int8Array |-> 1, Uint8ClampedArray |-> 1]

Reverse(s) == [i \in 1..Len(s) |-> s[Len(s) + 1 - i]]

(***************************************************************************)
(* CborEncoder.  The writer methods of CborEncoderFast that it inherits    *)
(* (the headers of integers, strings, binaries, arrays, objects and tags)  *)
(* are not in the sources at hand.                                         *)
(***************************************************************************)
\* The head of major with the argument n, in the fewest bytes.
CborHdr(major, n) ==
  IF n <= 23 THEN << major * 32 + n >>
  ELSE IF n <= 255 THEN << major * 32 + 24, n >>
  ELSE IF n <= 65535 THEN << major * 32 + 25, n \div 256, n % 256 >>
  ELSE << major * 32 + 26, n \div 16777216, (n \div 65536) % 256,
          (n \div 256) % 256, n % 256 >>

\* writeNumber, for an integer
CborWriteInteger(int) ==
  IF int >= 0 THEN CborHdr(MAJOR_UIN, int) ELSE CborHdr(MAJOR_NIN, (0 - 1) - int)

CborWriteStr(str) == CborHdr(MAJOR_STR, Len(Utf8Encode(str))) \o Utf8Encode(str)

CborWriteBin(buf) == CborHdr(MAJOR_BIN, Len(buf)) \o buf

CborWriteNull == << 246 >>

\* writeUnknown(value)
CborWriteUnknown == CborWriteNull

\* writeUndef()
CborWriteUndef == << 247 >>

\* getTypedArrayTag, with the little-endian tag whatever the host is.
getTypedArrayTagLittleEndian(isLittleEndian, kind) ==
  CASE kind = "Int8Array" -> TAG_SINT8
    [] kind = "Uint8ClampedArray" -> TAG_UINT8_CLAMPED
    [] kind = "Int16Array" -> TAG_SINT16_LE
    [] kind = "Uint16Array" -> TAG_UINT16_LE
    [] kind = "Int32Array" -> TAG_SINT32_LE
    [] kind = "Uint32Array" -> TAG_UINT32_LE
    [] kind = "Float32Array" -> TAG_FLOAT32_LE
    [] kind = "Float64Array" -> TAG_FLOAT64_LE
    [] kind = "BigInt64Array" -> TAG_SINT64_LE
    [] kind = "BigUint64Array" -> TAG_UINT64_LE

\* getTypedArrayTag(value), on a host that is little-endian or not
getTypedArrayTag(isLittleEndian, kind) ==
  CASE kind = "Int8Array" -> TAG_SINT8
    [] kind = "Uint8ClampedArray" -> TAG_UINT8_CLAMPED
    [] kind = "Int16Array" -> IF isLittleEndian THEN TAG_SINT16_LE ELSE TAG_SINT16_BE
    [] kind = "Uint16Array" -> IF isLittleEndian THEN TAG_UINT16_LE ELSE TAG_UINT16_BE
    [] kind = "Int32Array" -> IF isLittleEndian THEN TAG_SINT32_LE ELSE TAG_SINT32_BE
    [] kind = "Uint32Array" -> IF isLittleEndian THEN TAG_UINT32_LE ELSE TAG_UINT32_BE
    [] kind = "Float32Array" -> IF isLittleEndian THEN TAG_FLOAT32_LE ELSE TAG_FLOAT32_BE
    [] kind = "Float64Array" -> IF isLittleEndian THEN TAG_FLOAT64_LE ELSE TAG_FLOAT64_BE
    [] kind = "BigInt64Array" -> IF isLittleEndian THEN TAG_SINT64_LE ELSE TAG_SINT64_BE
    [] kind = "BigUint64Array" -> IF isLittleEndian THEN TAG_UINT64_LE ELSE TAG_UINT64_BE

\* new Uint8Array(value.buffer, value.byteOffset, value.byteLength): the bytes
\* of the elements as the host stores them.
TypedArrayBuffer(isLittleEndian, elements) ==
  Flatten([i \in 1..Len(elements) |->
             IF isLittleEndian THEN Reverse(elements[i]) ELSE elements[i]])

RECURSIVE CborWriteAny(_, _)
RECURSIVE CborWriteArrItems(_, _, _)
RECURSIVE CborWriteObjEntries(_, _, _)

\* writeTag(tag, value): the head of the tag, then writeAny(value)
CborWriteTag(isLittleEndian, tag, v) ==
  CborHdr(MAJOR_TAG, tag) \o CborWriteAny(isLittleEndian, v)

\* writeTypedArray(value)
CborWriteTypedArray(isLittleEndian, v) ==
  CborWriteTag(isLittleEndian, getTypedArrayTag(isLittleEndian, v.kind),
               BinV(TypedArrayBuffer(isLittleEndian, v.elements)))

CborWriteArrItems(isLittleEndian, arr, i) ==
  IF i > Len(arr) THEN << >>
  ELSE CborWriteAny(isLittleEndian, arr[i]) \o CborWriteArrItems(isLittleEndian, arr, i + 1)

CborWriteArr(isLittleEndian, arr) ==
  CborHdr(MAJOR_ARR, Len(arr)) \o CborWriteArrItems(isLittleEndian, arr, 1)

CborWriteObjEntries(isLittleEndian, entries, i) ==
  IF i > Len(entries) THEN << >>
  ELSE CborWriteStr(entries[i][1]) \o CborWriteAny(isLittleEndian, entries[i][2])
         \o CborWriteObjEntries(isLittleEndian, entries, i + 1)

CborWriteObj(isLittleEndian, obj) ==
  CborHdr(MAJOR_MAP, Len(obj)) \o CborWriteObjEntries(isLittleEndian, obj, 1)

\* writeAny(value).  A Date has no case of its own: its constructor falls to
\* the default branch, none of whose tests it passes, and writeUnknown writes it.
CborWriteAny(isLittleEndian, v) ==
  CASE v.t = "num" -> CborWriteInteger(v.v)
    [] v.t = "str" -> CborWriteStr(v.v)
    [] v.t = "bool" -> << 244 + (IF v.v THEN 1 ELSE 0) >>
    [] v.t = "null" -> << 246 >>
    [] v.t = "obj" -> CborWriteObj(isLittleEndian, v.v)
    [] v.t = "arr" -> CborWriteArr(isLittleEndian, v.v)
    [] v.t = "bin" -> CborWriteBin(v.v)
    [] v.t = "typed" -> CborWriteTypedArray(isLittleEndian, v.v)
    [] v.t = "ext" -> CborWriteTag(isLittleEndian, v.v.tag, v.v.val)
    [] v.t = "undef" -> CborWriteUndef
    [] OTHER -> CborWriteUnknown

(***************************************************************************)
(* CborDecoder.  A decoder is data and x of its reader, err the error      *)
(* thrown ("" for none), val the value returned and n the number the last  *)
(* header read.  The reader and the methods of CborDecoderBase (val,       *)
(* readAnyRaw, readMinorLen, key and its readTagRaw) are not part of       *)
(* these sources; the reader fails with "Unexpected end of input" on any   *)
(* access past the end of its data.                                        *)
(***************************************************************************)
NewCborDecoder == [data |-> << >>, x |-> 0, err |-> "", val |-> NullV, n |-> 0]

\* 2^30, for it and any greater number: a length beyond any buffer.
Huge == Limb * (Limb \div 4)

\* The number of big-endian bytes.
CborUint(bytes) ==
  IF \/ \E i \in 1..(Len(bytes) - 4) : bytes[i] # 0
     \/ Len(bytes) >= 4 /\ bytes[Len(bytes) - 3] >= 64
    THEN Huge
  ELSE IF Len(bytes) = 1 THEN bytes[1]
  ELSE IF Len(bytes) = 2 THEN bytes[1] * 256 + bytes[2]
  ELSE ((bytes[Len(bytes) - 3] * 256 + bytes[Len(bytes) - 2]) * 256
          + bytes[Len(bytes) - 1]) * 256 + bytes[Len(bytes)]

\* reader.u8(), u16(), u32() and Number(reader.u64()), the number left in n
ReaderUint(d, size) ==
  IF ~ReaderHas(d.data, d.x, size) THEN Fail(d, ERR_UNEXPECTED_END)
  ELSE [Advance(d, size) EXCEPT !.n = CborUint(ReaderBuf(d.data, d.x, size))]

\* reader.skip(length)
ReaderSkip(d, length) ==
  IF ~ReaderHas(d.data, d.x, length) THEN Fail(d, ERR_UNEXPECTED_END)
  ELSE Advance(d, length)

\* reader.peak() === CONST.END, on a reader that has a byte
PeakIsEnd(d) == ReaderU8(d.data, d.x) = CONST_END

\* readMinorLen(minor)
readMinorLen(d, minor) ==
  IF minor < 24 THEN [d EXCEPT !.n = minor]
  ELSE CASE minor = 24 -> ReaderUint(d, 1)
         [] minor = 25 -> ReaderUint(d, 2)
         [] minor = 26 -> ReaderUint(d, 4)
         [] minor = 27 -> ReaderUint(d, 8)
         [] minor = 31 -> [d EXCEPT !.n = 0 - 1]
         [] OTHER -> Fail(d, UNEXPECTED_MINOR)

\* skipMinorLen(minor)
skipMinorLen(d, minor) ==
  IF minor <= 23 THEN [d EXCEPT !.n = minor]
  ELSE CASE minor = 24 -> ReaderUint(d, 1)
         [] minor = 25 -> ReaderUint(d, 2)
         [] minor = 26 -> ReaderUint(d, 4)
         [] minor = 27 -> ReaderUint(d, 8)
         [] minor = 31 -> [d EXCEPT !.n = 0 - 1]
         [] OTHER -> Fail(d, UNEXPECTED_MINOR)

\* skipUNint(minor)
skipUNint(d, minor) ==
  IF minor <= 23 THEN d
  ELSE CASE minor = 24 -> ReaderSkip(d, 1)
         [] minor = 25 -> ReaderSkip(d, 2)
         [] minor = 26 -> ReaderSkip(d, 4)
         [] minor = 27 -> ReaderSkip(d, 8)
         [] OTHER -> Fail(d, UNEXPECTED_MINOR)

\* skipTkn(minor)
skipTkn(d, minor) ==
  CASE minor = 24 -> ReaderSkip(d, 1)
    [] minor = 25 -> ReaderSkip(d, 2)
    [] minor = 26 -> ReaderSkip(d, 4)
    [] minor = 27 -> ReaderSkip(d, 8)
    [] OTHER -> IF minor <= 23 THEN d ELSE Fail(d, UNEXPECTED_MINOR)

RECURSIVE skipAny(_)
RECURSIVE skipN(_, _)
RECURSIVE skipChunks(_, _)
RECURSIVE skipArrIndef(_)
RECURSIVE skipObjIndef(_)

\* skipBin(minor) and skipStr(minor) after skipMinorLen, major the one of
\* the string
skipStrLen(d, major) ==
  IF d.err # "" THEN d
  ELSE IF d.n >= 0 THEN ReaderSkip(d, d.n)
  ELSE skipChunks(d, major)

\* skipBinChunk() and skipStrChunk()
skipChunk(d, major) ==
  IF ReaderU8(d.data, d.x) \div 32 # major
    THEN Fail(Advance(d, 1), IF major = MAJOR_BIN THEN UNEXPECTED_BIN_CHUNK_MAJOR
                                                  ELSE UNEXPECTED_STR_CHUNK_MAJOR)
  ELSE IF ReaderU8(d.data, d.x) % 32 > 27
    THEN Fail(Advance(d, 1), IF major = MAJOR_BIN THEN UNEXPECTED_BIN_CHUNK_MINOR
                                                  ELSE UNEXPECTED_STR_CHUNK_MINOR)
  ELSE skipStrLen(skipMinorLen(Advance(d, 1), ReaderU8(d.data, d.x) % 32), major)

\* while (this.reader.peak() !== CONST.END) this.skipBinChunk(); this.reader.x++
skipChunks(d, major) ==
  IF d.err # "" THEN d
  ELSE IF ~ReaderHas(d.data, d.x, 1) THEN Fail(d, ERR_UNEXPECTED_END)
  ELSE IF PeakIsEnd(d) THEN Advance(d, 1)
  ELSE skipChunks(skipChunk(d, major), major)

\* skipBin(minor)
skipBin(d, minor) == skipStrLen(skipMinorLen(d, minor), MAJOR_BIN)

\* skipStr(minor)
skipStr(d, minor) == skipStrLen(skipMinorLen(d, minor), MAJOR_STR)

\* skipN(n)
skipN(d, n) ==
  IF d.err # "" \/ n <= 0 THEN d ELSE skipN(skipAny(d), n - 1)

\* while (this.reader.peak() !== CONST.END) this.skipAny(); this.reader.x++
skipArrIndef(d) ==
  IF d.err # "" THEN d
  ELSE IF ~ReaderHas(d.data, d.x, 1) THEN Fail(d, ERR_UNEXPECTED_END)
  ELSE IF PeakIsEnd(d) THEN Advance(d, 1)
  ELSE skipArrIndef(skipAny(d))

\* skipArr(minor) after skipMinorLen
skipArrLen(d) ==
  IF d.err # "" THEN d
  ELSE IF d.n >= 0 THEN skipN(d, d.n)
  ELSE skipArrIndef(d)

\* skipArr(minor)
skipArr(d, minor) == skipArrLen(skipMinorLen(d, minor))

\* The body of the loop of skipObj after its first skipAny.
skipObjValue(d) ==
  IF d.err # "" THEN d
  ELSE IF ~ReaderHas(d.data, d.x, 1) THEN Fail(d, ERR_UNEXPECTED_END)
  ELSE IF PeakIsEnd(d) THEN Fail(d, UNEXPECTED_OBJ_BREAK)
  ELSE skipAny(d)

\* The loop of skipObj, and this.reader.x++
skipObjIndef(d) ==
  IF d.err # "" THEN d
  ELSE IF ~ReaderHas(d.data, d.x, 1) THEN Fail(d, ERR_UNEXPECTED_END)
  ELSE IF PeakIsEnd(d) THEN Advance(d, 1)
  ELSE skipObjIndef(skipObjValue(skipAny(d)))

\* skipObj(minor) after readMinorLen
skipObjLen(d) ==
  IF d.err # "" THEN d
  ELSE IF d.n >= 0 THEN skipN(d, IF d.n >= Huge \div 2 THEN Huge ELSE d.n * 2)
  ELSE skipObjIndef(d)

\* skipObj(minor)
skipObj(d, minor) == skipObjLen(readMinorLen(d, minor))

\* skipTag(minor) after skipMinorLen
skipTagLen(d) ==
  IF d.err # "" THEN d
  ELSE IF d.n < 0 THEN Fail(d, UNEXPECTED_MINOR)
  ELSE skipAny(d)

\* skipTag(minor)
skipTag(d, minor) == skipTagLen(skipMinorLen(d, minor))

\* skipAnyRaw(octet)
skipAnyRaw(d, octet) ==
  CASE octet \div 32 \in {MAJOR_UIN, MAJOR_NIN} -> skipUNint(d, octet % (CONST_MINOR_MASK + 1))
    [] octet \div 32 = MAJOR_BIN -> skipBin(d, octet % (CONST_MINOR_MASK + 1))
    [] octet \div 32 = MAJOR_STR -> skipStr(d, octet % (CONST_MINOR_MASK + 1))
    [] octet \div 32 = MAJOR_ARR -> skipArr(d, octet % (CONST_MINOR_MASK + 1))
    [] octet \div 32 = MAJOR_MAP -> skipObj(d, octet % (CONST_MINOR_MASK + 1))
    [] octet \div 32 = MAJOR_TKN -> skipTkn(d, octet % (CONST_MINOR_MASK + 1))
    [] octet \div 32 = MAJOR_TAG -> skipTag(d, octet % (CONST_MINOR_MASK + 1))

\* skipAny()
skipAny(d) ==
  IF d.err # "" THEN d
  ELSE IF ~ReaderHas(d.data, d.x, 1) THEN Fail(d, ERR_UNEXPECTED_END)
  ELSE skipAnyRaw(Advance(d, 1), ReaderU8(d.data, d.x))

\* validate(value, offset, size) after skipAny, d the decoder it leaves
validateSize(d, offset, size) ==
  IF d.err # "" THEN d
  ELSE IF d.x - offset # size THEN Fail(d, INVALID_SIZE)
  ELSE d

\* validate(value, offset, size)
validate(decoder, uint8, offset, size) ==
  validateSize(skipAny([decoder EXCEPT !.data = uint8, !.x = offset, !.err = ""]),
               offset, size)

ARRAY_TAG_MULTI_DIM_ROW_MAJOR == 40
ARRAY_TAG_HOMOGENEOUS == 41
ARRAY_TAG_MULTI_DIM_COLUMN_MAJOR == 1040

\* The tag of a day count (RFC 8943), which dates.ts writes and reads.
TAG_DATE_DAYS == 100

ERR_MULTI_DIM_ELEMENTS == "Multi-dimensional array must contain exactly 2 elements"
ERR_MULTI_DIM_DIMENSIONS == "Multi-dimensional array dimensions must be positive integers"
ERR_HOMOGENEOUS == "Homogeneous array must contain an array"
ERR_TYPE == "TypeError"

\* The bytes of a typed array cut into elements of size bytes, each most
\* significant byte first: the loops of createUint16Array .. createFloat64Array
\* over view.getX(i * size, littleEndian), the array of
\* bytes.byteLength / size elements.
createTypedArray(kind, bytes, littleEndian) ==
  TypedV(kind,
         [i \in 1..(Len(bytes) \div ElementSize[kind]) |->
            IF littleEndian
              THEN Reverse(SubSeq(bytes, (i - 1) * ElementSize[kind] + 1, i * ElementSize[kind]))
              ELSE SubSeq(bytes, (i - 1) * ElementSize[kind] + 1, i * ElementSize[kind])])

\* readTypedArrayTag(tag), with the half-precision tags read as float32.
readTypedArrayTagHalfAsSingle(d, tag) ==
  IF d.err # "" THEN d
  ELSE IF tag \in {TAG_FLOAT128_BE, TAG_FLOAT128_LE} THEN Fail(d, ERR_UNSUPPORTED_FLOAT)
  ELSE IF d.val.t # "bin" THEN Fail(d, ERR_TYPE)
  ELSE Return(d, createTypedArray("Float32Array", d.val.v, tag = TAG_FLOAT16_LE))

\* readTypedArrayTag(tag) after this.val(), which left the bytes in d.val.
\* A value that is no Uint8Array has no buffer to slice or to view.
readTypedArrayTag(d, tag) ==
  IF d.err # "" THEN d
  ELSE IF tag \in {TAG_FLOAT16_BE, TAG_FLOAT16_LE, TAG_FLOAT128_BE, TAG_FLOAT128_LE}
    THEN Fail(d, ERR_UNSUPPORTED_FLOAT)
  ELSE IF tag \notin
            {TAG_UINT8, TAG_UINT8_CLAMPED, TAG_SINT8, TAG_UINT16_BE, TAG_UINT16_LE,
             TAG_SINT16_BE, TAG_SINT16_LE, TAG_UINT32_BE, TAG_UINT32_LE, TAG_SINT32_BE,
             TAG_SINT32_LE, TAG_UINT64_BE, TAG_UINT64_LE, TAG_SINT64_BE, TAG_SINT64_LE,
             TAG_FLOAT32_BE, TAG_FLOAT32_LE, TAG_FLOAT64_BE, TAG_FLOAT64_LE}
    THEN Fail(d, ERR_UNKNOWN_TYPED_ARRAY_TAG)
  ELSE IF d.val.t # "bin" THEN Fail(d, ERR_TYPE)
  ELSE CASE tag = TAG_UINT8 -> Return(d, BinV(d.val.v))
         [] tag = TAG_UINT8_CLAMPED -> Return(d, createTypedArray("Uint8ClampedArray", d.val.v, FALSE))
         [] tag = TAG_SINT8 -> Return(d, createTypedArray("Int8Array", d.val.v, FALSE))
         [] tag = TAG_UINT16_BE -> Return(d, createTypedArray("Uint16Array", d.val.v, FALSE))
         [] tag = TAG_UINT16_LE -> Return(d, createTypedArray("Uint16Array", d.val.v, TRUE))
         [] tag = TAG_SINT16_BE -> Return(d, createTypedArray("Int16Array", d.val.v, FALSE))
         [] tag = TAG_SINT16_LE -> Return(d, createTypedArray("Int16Array", d.val.v, TRUE))
         [] tag = TAG_UINT32_BE -> Return(d, createTypedArray("Uint32Array", d.val.v, FALSE))
         [] tag = TAG_UINT32_LE -> Return(d, createTypedArray("Uint32Array", d.val.v, TRUE))
         [] tag = TAG_SINT32_BE -> Return(d, createTypedArray("Int32Array", d.val.v, FALSE))
         [] tag = TAG_SINT32_LE -> Return(d, createTypedArray("Int32Array", d.val.v, TRUE))
         [] tag = TAG_UINT64_BE -> Return(d, createTypedArray("BigUint64Array", d.val.v, FALSE))
         [] tag = TAG_UINT64_LE -> Return(d, createTypedArray("BigUint64Array", d.val.v, TRUE))
         [] tag = TAG_SINT64_BE -> Return(d, createTypedArray("BigInt64Array", d.val.v, FALSE))
         [] tag = TAG_SINT64_LE -> Return(d, createTypedArray("BigInt64Array", d.val.v, TRUE))
         [] tag = TAG_FLOAT32_BE -> Return(d, createTypedArray("Float32Array", d.val.v, FALSE))
         [] tag = TAG_FLOAT32_LE -> Return(d, createTypedArray("Float32Array", d.val.v, TRUE))
         [] tag = TAG_FLOAT64_BE -> Return(d, createTypedArray("Float64Array", d.val.v, FALSE))
         [] tag = TAG_FLOAT64_LE -> Return(d, createTypedArray("Float64Array", d.val.v, TRUE))

\* readMultiDimensionalArray(rowMajor) after this.val()
readMultiDimensionalArray(d, rowMajor) ==
  IF d.err # "" THEN d
  ELSE IF d.val.t # "arr" THEN Fail(d, ERR_MULTI_DIM_ELEMENTS)
  ELSE IF Len(d.val.v) # 2 THEN Fail(d, ERR_MULTI_DIM_ELEMENTS)
  ELSE IF d.val.v[1].t # "arr" THEN Fail(d, ERR_MULTI_DIM_DIMENSIONS)
  ELSE IF \E i \in 1..Len(d.val.v[1].v) :
            IF d.val.v[1].v[i].t # "num" THEN TRUE ELSE d.val.v[1].v[i].v <= 0
    THEN Fail(d, ERR_MULTI_DIM_DIMENSIONS)
  ELSE Return(d, ObjV(<< << "dimensions", d.val.v[1] >>, << "elements", d.val.v[2] >>,
                         << "order", StrV(IF rowMajor THEN "row-major" ELSE "column-major") >> >>))

\* readHomogeneousArray() after this.val()
readHomogeneousArray(d) ==
  IF d.err # "" THEN d
  ELSE IF d.val.t # "arr" THEN Fail(d, ERR_HOMOGENEOUS)
  ELSE d

\* readTagRaw of CborDecoderBase after this.val(): a day count is a Date, any
\* other tag an extension.
baseReadTagRaw(d, tag) ==
  IF d.err # "" THEN d
  ELSE IF tag = TAG_DATE_DAYS /\ d.val.t = "num" THEN Return(d, DateV(d.val.v, 0))
  ELSE Return(d, ExtV(tag, d.val))

RECURSIVE CborVal(_)
RECURSIVE readArrRaw(_, _, _)
RECURSIVE readArrIndef(_, _)
RECURSIVE readObjRaw(_, _, _)
RECURSIVE readObjIndef(_, _)
RECURSIVE readChunks(_, _, _)

\* readTagRaw(tag)
readTagRaw(d, tag) ==
  IF tag >= TAG_UINT8 /\ tag <= TAG_FLOAT128_LE THEN readTypedArrayTag(CborVal(d), tag)
  ELSE CASE tag = ARRAY_TAG_MULTI_DIM_ROW_MAJOR -> readMultiDimensionalArray(CborVal(d), TRUE)
         [] tag = ARRAY_TAG_MULTI_DIM_COLUMN_MAJOR -> readMultiDimensionalArray(CborVal(d), FALSE)
         [] tag = ARRAY_TAG_HOMOGENEOUS -> readHomogeneousArray(CborVal(d))
         [] OTHER -> baseReadTagRaw(CborVal(d), tag)

\* readTag(minor) after readMinorLen
readTagLen(d) ==
  IF d.err # "" THEN d
  ELSE IF d.n < 0 THEN Fail(d, UNEXPECTED_MINOR)
  ELSE readTagRaw(d, d.n)

\* readUint(minor) and readNint(minor) after the number is read
readUNintLen(d, major) ==
  IF d.err # "" THEN d
  ELSE IF d.n < 0 THEN Fail(d, UNEXPECTED_MINOR)
  ELSE Return(d, NumV(IF major = MAJOR_UIN THEN d.n ELSE (0 - 1) - d.n))

\* A binary or a string of the bytes read.
StrOrBin(major, bytes) == IF major = MAJOR_BIN THEN BinV(bytes) ELSE StrV(Utf8Decode(bytes))

\* The chunks of an indefinite string up to the break, acc the bytes so far.
readChunksLen(d, major, acc) ==
  IF d.err # "" THEN d
  ELSE IF d.n < 0 THEN Fail(d, UNEXPECTED_MINOR)
  ELSE IF ~ReaderHas(d.data, d.x, d.n) THEN Fail(d, ERR_UNEXPECTED_END)
  ELSE readChunks(Advance(d, d.n), major, acc \o ReaderBuf(d.data, d.x, d.n))

readChunks(d, major, acc) ==
  IF ~ReaderHas(d.data, d.x, 1) THEN Fail(d, ERR_UNEXPECTED_END)
  ELSE IF PeakIsEnd(d) THEN Return(Advance(d, 1), StrOrBin(major, acc))
  ELSE IF ReaderU8(d.data, d.x) \div 32 # major
    THEN Fail(Advance(d, 1), IF major = MAJOR_BIN THEN UNEXPECTED_BIN_CHUNK_MAJOR
                                                  ELSE UNEXPECTED_STR_CHUNK_MAJOR)
  ELSE readChunksLen(readMinorLen(Advance(d, 1), ReaderU8(d.data, d.x) % 32), major, acc)

\* readBin(minor) and readStr(minor) after readMinorLen
readStrLen(d, major) ==
  IF d.err # "" THEN d
  ELSE IF d.n < 0 THEN readChunks(d, major, << >>)
  ELSE IF ~ReaderHas(d.data, d.x, d.n) THEN Fail(d, ERR_UNEXPECTED_END)
  ELSE Return(Advance(d, d.n), StrOrBin(major, ReaderBuf(d.data, d.x, d.n)))

\* The array of acc and the value r has read.
readArrRawNext(r, n, acc) == readArrRaw(r, n, Append(acc, r.val))

readArrRaw(d, n, acc) ==
  IF d.err # "" THEN d
  ELSE IF n <= 0 THEN Return(d, ArrV(acc))
  ELSE readArrRawNext(CborVal(d), n - 1, acc)

readArrIndefNext(r, acc) == readArrIndef(r, Append(acc, r.val))

readArrIndef(d, acc) ==
  IF d.err # "" THEN d
  ELSE IF ~ReaderHas(d.data, d.x, 1) THEN Fail(d, ERR_UNEXPECTED_END)
  ELSE IF PeakIsEnd(d) THEN Return(Advance(d, 1), ArrV(acc))
  ELSE readArrIndefNext(CborVal(d), acc)

\* readArr(minor) after readMinorLen
readArrLen(d) ==
  IF d.err # "" THEN d
  ELSE IF d.n >= 0 THEN readArrRaw(d, d.n, << >>)
  ELSE readArrIndef(d, << >>)

\* key(): the string of a key.  Only keys that are strings are read, as the
\* documents decoded here have no other.
key(d) ==
  IF d.err # "" THEN d
  ELSE IF ~ReaderHas(d.data, d.x, 1) THEN Fail(d, ERR_UNEXPECTED_END)
  ELSE IF ReaderU8(d.data, d.x) \div 32 # MAJOR_STR THEN Fail(Advance(d, 1), UNEXPECTED_MAJOR)
  ELSE readStrLen(readMinorLen(Advance(d, 1), ReaderU8(d.data, d.x) % 32), MAJOR_STR)

readObjRawNext(r, n, acc, k) == readObjRaw(r, n, SetEntry(acc, k, r.val))

readObjRawKey(r, n, acc) ==
  IF r.err # "" THEN r ELSE readObjRawNext(CborVal(r), n, acc, r.val.v)

readObjRaw(d, n, acc) ==
  IF d.err # "" THEN d
  ELSE IF n <= 0 THEN Return(d, ObjV(acc))
  ELSE readObjRawKey(key(d), n - 1, acc)

readObjIndefNext(r, acc, k) == readObjIndef(r, SetEntry(acc, k, r.val))

readObjIndefKey(r, acc) ==
  IF r.err # "" THEN r
  ELSE IF ~ReaderHas(r.data, r.x, 1) THEN Fail(r, ERR_UNEXPECTED_END)
  ELSE IF PeakIsEnd(r) THEN Fail(r, UNEXPECTED_OBJ_BREAK)
  ELSE readObjIndefNext(CborVal(r), acc, r.val.v)

readObjIndef(d, acc) ==
  IF d.err # "" THEN d
  ELSE IF ~ReaderHas(d.data, d.x, 1) THEN Fail(d, ERR_UNEXPECTED_END)
  ELSE IF PeakIsEnd(d) THEN Return(Advance(d, 1), ObjV(acc))
  ELSE readObjIndefKey(key(d), acc)

\* readObj(minor) after readMinorLen
readObjLen(d) ==
  IF d.err # "" THEN d
  ELSE IF d.n >= 0 THEN readObjRaw(d, d.n, << >>)
  ELSE readObjIndef(d, << >>)

\* readTkn(minor): false, true, null, undefined, a float or a simple value
readTkn(d, minor) ==
  CASE minor = 20 -> Return(d, BoolV(FALSE))
    [] minor = 21 -> Return(d, BoolV(TRUE))
    [] minor = 22 -> Return(d, NullV)
    [] minor = 23 -> Return(d, UndefV)
    [] minor \in 24..27 ->
         IF ~ReaderHas(d.data, d.x, 2 ^ (minor - 24)) THEN Fail(d, ERR_UNEXPECTED_END)
         ELSE Return(Advance(d, 2 ^ (minor - 24)),
                     [t |-> IF minor = 24 THEN "simple" ELSE "float",
                      v |-> ReaderBuf(d.data, d.x, 2 ^ (minor - 24))])
    [] minor < 20 -> Return(d, [t |-> "simple", v |-> << minor >>])
    [] OTHER -> Fail(d, UNEXPECTED_MINOR)

\* readAnyRaw(octet)
readAnyRaw(d, octet) ==
  CASE octet \div 32 \in {MAJOR_UIN, MAJOR_NIN} ->
         readUNintLen(readMinorLen(d, octet % 32), octet \div 32)
    [] octet \div 32 \in {MAJOR_BIN, MAJOR_STR} ->
         readStrLen(readMinorLen(d, octet % 32), octet \div 32)
    [] octet \div 32 = MAJOR_ARR -> readArrLen(readMinorLen(d, octet % 32))
    [] octet \div 32 = MAJOR_MAP -> readObjLen(readMinorLen(d, octet % 32))
    [] octet \div 32 = MAJOR_TAG -> readTagLen(readMinorLen(d, octet % 32))
    [] octet \div 32 = MAJOR_TKN -> readTkn(d, octet % 32)

\* val(): readAnyRaw(reader.u8())
CborVal(d) ==
  IF d.err # "" THEN d
  ELSE IF ~ReaderHas(d.data, d.x, 1) THEN Fail(d, ERR_UNEXPECTED_END)
  ELSE readAnyRaw(Advance(d, 1), ReaderU8(d.data, d.x))

\* decode(uint8): reader.reset(uint8), then val()
CborDecode(decoder, uint8) ==
  CborVal([decoder EXCEPT !.data = uint8, !.x = 0, !.err = "", !.val = NullV])

(***************************************************************************)
(* Shallow reading.  A path is a sequence of segments: a string for the    *)
(* key of an object ("key"), a number for the index of an array ("index"). *)
(***************************************************************************)
KeySeg(k) == [t |-> "key", k |-> k, i |-> 0]
IndexSeg(i) == [t |-> "index", k |-> << >>, i |-> i]

\* readHdr(expectedMajor): the number of the header is left in n
readHdr(d, expectedMajor) ==
  IF d.err # "" THEN d
  ELSE IF ~ReaderHas(d.data, d.x, 1) THEN Fail(d, ERR_UNEXPECTED_END)
  ELSE IF ReaderU8(d.data, d.x) \div 32 # expectedMajor
    THEN Fail(Advance(d, 1), UNEXPECTED_MAJOR)
  ELSE IF ReaderU8(d.data, d.x) % (CONST_MINOR_MASK + 1) < 24
    THEN [Advance(d, 1) EXCEPT !.n = ReaderU8(d.data, d.x) % (CONST_MINOR_MASK + 1)]
  ELSE CASE ReaderU8(d.data, d.x) % (CONST_MINOR_MASK + 1) = 24 -> ReaderUint(Advance(d, 1), 1)
         [] ReaderU8(d.data, d.x) % (CONST_MINOR_MASK + 1) = 25 -> ReaderUint(Advance(d, 1), 2)
         [] ReaderU8(d.data, d.x) % (CONST_MINOR_MASK + 1) = 26 -> ReaderUint(Advance(d, 1), 4)
         [] ReaderU8(d.data, d.x) % (CONST_MINOR_MASK + 1) = 27 -> ReaderUint(Advance(d, 1), 8)
         [] ReaderU8(d.data, d.x) % (CONST_MINOR_MASK + 1) = 31 -> [Advance(d, 1) EXCEPT !.n = 0 - 1]
         [] OTHER -> Fail(Advance(d, 1), UNEXPECTED_MINOR)

readObjHdr(d) == readHdr(d, MAJOR_MAP)

readArrHdr(d) == readHdr(d, MAJOR_ARR)

RECURSIVE findKeyLoop(_, _, _, _)

\* The body of the loop of findKey without the skipAny() of the value of
\* another key.
findKeyStepNoSkip(r, k, i, size) ==
  IF r.err # "" THEN r
  ELSE IF r.val.v = k THEN r
  ELSE findKeyLoop(r, k, i + 1, size)

\* The body of the loop of findKey after this.key(), which r has read.
findKeyStep(r, k, i, size) ==
  IF r.err # "" THEN r
  ELSE IF r.val.v = k THEN r
  ELSE findKeyLoop(skipAny(r), k, i + 1, size)

\* for (let i = 0; i < size; i++) of findKey, then the throw
findKeyLoop(d, k, i, size) ==
  IF d.err # "" THEN d
  ELSE IF i < size THEN findKeyStep(key(d), k, i, size)
  ELSE Fail(d, KEY_NOT_FOUND)

\* findKey(key) after readObjHdr
findKeySize(d, k) == IF d.err # "" THEN d ELSE findKeyLoop(d, k, 0, d.n)

\* findKey(key)
findKey(d, k) == findKeySize(readObjHdr(d), k)

\* findIndex(index) after readArrHdr, throwing only when index > size.
findIndexSizeAbove(d, index) ==
  IF d.err # "" THEN d
  ELSE IF index > d.n THEN Fail(d, INDEX_OUT_OF_BOUNDS)
  ELSE skipN(d, index)

\* findIndex(index) after readArrHdr
findIndexSize(d, index) ==
  IF d.err # "" THEN d
  ELSE IF index >= d.n THEN Fail(d, INDEX_OUT_OF_BOUNDS)
  ELSE skipN(d, index)

\* findIndex(index)
findIndex(d, index) == findIndexSize(readArrHdr(d), index)

RECURSIVE findFrom(_, _, _)

\* for (let i = 0; i < path.length; i++) of find
findFrom(d, path, i) ==
  IF d.err # "" \/ i > Len(path) THEN d
  ELSE IF path[i].t = "key" THEN findFrom(findKey(d, path[i].k), path, i + 1)
  ELSE findFrom(findIndex(d, path[i].i), path, i + 1)

\* find(path), on a decoder whose reader was reset to the document
find(d, path) == findFrom(d, path, 1)

(***************************************************************************)
(* The CBOR encoder and decoder at work: a value is encoded on a host that *)
(* is little-endian or not and its bytes are decoded or searched by a      *)
(* path; a document of given bytes is decoded or validated.                *)
(***************************************************************************)
\* encode(value): the writer is reset, writeAny(value) fills it and it is flushed.
CborEncode(isLittleEndian, v) == CborWriteAny(isLittleEndian, v)

\* The most elements of a typed array.
MaxElements == 2

\* Elements of size bytes: zero, one whose bytes all differ, one with the top
\* bits set, and the bytes that are a NaN when the element is a float.
ElementsOf(size) ==
  {[i \in 1..size |-> 0], [i \in 1..size |-> i], [i \in 1..size |-> 256 - i],
   [i \in 1..size |-> IF i = 1 THEN 127 ELSE IF i = 2 THEN 248 ELSE 0]}

TypedArrays ==
  UNION {{TypedV(kind, elements) :
            elements \in UNION {[1..n -> ElementsOf(ElementSize[kind])] : n \in 0..MaxElements}} :
         kind \in DOMAIN ElementSize}

\* Dates: the local calendar day counted from 1970-01-01, and the hour of the day.
Days == {0 - 1, 0, 1, 23, 24, 19000}
Hours == {0, 12, 23}

\* Documents: the two of shallow-read.genShallowRead.spec.ts, one with nested
\* containers among values of every kind, and an array whose header has a
\* length byte.
CborDocs ==
  << ArrV(<< NumV(1234), StrV(<< 97, 115, 100, 102 >>), ObjV(<< >>), NullV, BoolV(FALSE) >>),
     ObjV(<< << << 98, 97, 114 >>, ObjV(<< >>) >>, << << 98 >>, NumV(123) >>,
             << << 97 >>, BoolV(TRUE) >> >>),
     ObjV(<< << << 116 >>, TypedV("Uint16Array", << << 1, 2 >> >>) >>,
             << << 117 >>, UndefV >>,
             << << 97 >>, ObjV(<< << << 98 >>, ArrV(<< NumV(10), NumV(20), NumV(30) >>) >> >>) >>,
             << << 98 >>, ArrV(<< ArrV(<< NumV(0 - 500) >>), BinV(<< 1, 2, 3 >>),
                                  ObjV(<< << << 97 >>, StrV(<< 118 >>) >> >>) >>) >> >>),
     ArrV([i \in 1..25 |-> IF i = 2 THEN ArrV(<< NullV, NumV(i) >>) ELSE NumV(i)]) >>

\* The segments of the paths, and the longest path.
Segments ==
  {KeySeg(<< 97 >>), KeySeg(<< 98 >>), KeySeg(<< 120 >>),
   IndexSeg(0), IndexSeg(1), IndexSeg(2), IndexSeg(3), IndexSeg(24), IndexSeg(25)}

MaxPath == 3

Paths == UNION {[1..n -> Segments] : n \in 0..MaxPath}

\* Documents of given bytes: typed arrays of floats of 16 and 128 bits, whole
\* and cut short, and around them a typed array of another tag.
TagDocs ==
  << << 216, 80, 66, 0, 1 >>, << 216, 83, 66, 0, 1 >>, << 216, 84, 66, 0, 1 >>,
     << 216, 87, 66, 0, 1 >>, << 216, 80, 64 >>, << 216, 84, 80, 0, 0, 0, 0, 0, 0, 0, 0,
     0, 0, 0, 0, 0, 0, 0, 1 >>, << 216, 87, 95, 65, 7, 255 >>, << 216, 80, 130, 1, 2 >>,
     << 216, 83, 0 >>, << 216, 80, 66, 0 >>, << 216, 87 >>, << 216, 81, 68, 0, 0, 128, 63 >>,
     << 216, 76, 64 >>, << 129, 216, 84, 66, 0, 1 >>, << 216, 80, 216, 83, 64 >> >>

EncodeTyped(v) ==
  /\ cbor.op = "none"
  /\ cbor' = [cbor EXCEPT !.op = "encode", !.value = v, !.wire = CborEncode(cbor.host, v)]
  /\ UNCHANGED << codec, vint, json >>

EncodeDate(day, hour) ==
  /\ cbor.op = "none"
  /\ cbor' = [cbor EXCEPT !.op = "encode", !.value = DateV(day, hour),
                          !.wire = CborEncode(cbor.host, DateV(day, hour))]
  /\ UNCHANGED << codec, vint, json >>

EncodeDoc(k) ==
  /\ cbor.op = "none"
  /\ cbor' = [cbor EXCEPT !.op = "encode", !.value = CborDocs[k],
                          !.wire = CborEncode(cbor.host, CborDocs[k])]
  /\ UNCHANGED << codec, vint, json >>

\* decoder.decode(encoded)
DecodeEncoded ==
  /\ cbor.op = "encode"
  /\ cbor' = [cbor EXCEPT !.op = "decode", !.d = CborDecode(NewCborDecoder, cbor.wire)]
  /\ UNCHANGED << codec, vint, json >>

\* decoder.reader.reset(encoded); decoder.find(path); then decoder.val()
Find(path) ==
  /\ cbor.op = "encode"
  /\ cbor.value.t \in {"arr", "obj"}
  /\ cbor' = [cbor EXCEPT !.op = "find", !.path = path,
                          !.d = find([NewCborDecoder EXCEPT !.data = cbor.wire], path),
                          !.at = CborVal(find([NewCborDecoder EXCEPT !.data = cbor.wire], path))]
  /\ UNCHANGED << codec, vint, json >>

\* decoder.decode(bytes) of a document of given bytes
DecodeTagged(k) ==
  /\ cbor.op = "none"
  /\ cbor' = [cbor EXCEPT !.op = "decode", !.wire = TagDocs[k],
                          !.d = CborDecode(NewCborDecoder, TagDocs[k])]
  /\ UNCHANGED << codec, vint, json >>

\* Documents of given bytes for validate: values of every major type, whole,
\* cut short, followed by more bytes, with heads and breaks out of place.
ValidateDocs ==
  << << 0 >>, << 24, 100 >>, << 24 >>, << 25, 1 >>, << 57, 1, 0 >>, << 28 >>, << 31 >>,
     << 255 >>, << 66, 1, 2 >>, << 66, 1 >>, << 95, 65, 1, 64, 255 >>, << 95, 97, 1, 255 >>,
     << 95, 95, 255, 255 >>, << 95, 65, 1 >>, << 127, 97, 97, 255 >>, << 127, 127, 255, 255 >>,
     << 130, 1, 2 >>, << 130, 1 >>, << 159, 1, 130, 2, 3, 255 >>, << 159, 1 >>, << 129, 255 >>,
     << 161, 97, 97, 1 >>, << 161, 97, 97 >>, << 191, 97, 97, 1, 255 >>, << 191, 97, 97, 255 >>,
     << 193, 0 >>, << 223, 0 >>, << 216, 64, 65, 7 >>, << 192 >>, << 244 >>, << 248, 16 >>,
     << 248, 32 >>, << 248 >>, << 249, 60, 0 >>, << 250, 0, 0, 0, 0 >>,
     << 251, 0, 0, 0, 0, 0, 0, 0 >>, << 252 >>, << 0, 0 >>, << 1, 130, 1, 2, 9 >>,
     << 130, 248, 1, 0 >>, << 98, 195, 40 >> >>

\* decoder.validate(value, offset, size)
Validate(k, offset, size) ==
  /\ cbor.op = "none"
  /\ cbor' = [cbor EXCEPT !.op = "validate", !.wire = ValidateDocs[k], !.offset = offset,
                          !.size = size,
                          !.d = validate(NewCborDecoder, ValidateDocs[k], offset, size)]
  /\ UNCHANGED << codec, vint, json >>

InitCbor ==
  /\ InitCodec
  /\ options = DefaultOptions
  /\ vint = NoVInt
  /\ json = NoJson
  /\ cbor \in {[NoCbor EXCEPT !.host = h] : h \in BOOLEAN}

NextCbor ==
  \/ \E v \in TypedArrays : EncodeTyped(v)
  \/ \E day \in Days, hour \in Hours : EncodeDate(day, hour)
  \/ \E k \in 1..Len(CborDocs) : EncodeDoc(k)
  \/ DecodeEncoded
  \/ \E path \in Paths : Find(path)
  \/ \E k \in 1..Len(TagDocs) : DecodeTagged(k)
  \/ \E k \in 1..Len(ValidateDocs) :
       \E offset \in 0..Len(ValidateDocs[k]), size \in 0..(Len(ValidateDocs[k]) + 1) :
         Validate(k, offset, size)

SpecCbor == InitCbor /\ [][NextCbor]_vars

\* The tags of RFC 8746 for elements of more than one byte, by byte order.
LittleEndianTags == {69, 70, 71, 77, 78, 79, 85, 86}
BigEndianTags == {65, 66, 67, 73, 74, 75, 81, 82}

\* C13: a typed array with elements of more than one byte is written as the
\* tag of the host's byte order (a little-endian tag on a little-endian host,
\* a big-endian tag otherwise) around a byte string of the array's bytes as
\* the host holds them, and decoding those bytes gives a typed array of the
\* same element type with equal elements.
C13_TypedArrayRoundTrip ==
  (/\ cbor.op = "decode"
   /\ cbor.value.t = "typed"
   /\ ElementSize[cbor.value.v.kind] > 1)
  => /\ cbor.wire[1] = MAJOR_TAG * 32 + 24
     /\ cbor.wire[2] \in (IF cbor.host THEN LittleEndianTags ELSE BigEndianTags)
     /\ SubSeq(cbor.wire, 3, Len(cbor.wire))
          = CborWriteBin(Flatten([i \in 1..Len(cbor.value.v.elements) |->
                           IF cbor.host THEN Reverse(cbor.value.v.elements[i])
                                        ELSE cbor.value.v.elements[i]]))
     /\ cbor.d.err = ""
     /\ cbor.d.val.t = "typed"
     /\ cbor.d.val.v.kind = cbor.value.v.kind
     /\ cbor.d.val.v.elements = cbor.value.v.elements

C13_Witness ==
  /\ cbor.op = "decode"
  /\ cbor.value.t = "typed"
  /\ cbor.value.v.kind = "Float64Array"
  /\ ~cbor.host
  /\ Len(cbor.value.v.elements) = MaxElements
  /\ cbor.value.v.elements[1] = << 1, 2, 3, 4, 5, 6, 7, 8 >>
  /\ cbor.wire[2] = TAG_FLOAT64_BE
  /\ cbor.d.err = ""
  /\ cbor.d.val.t = "typed"
  /\ cbor.d.val.v.elements = cbor.value.v.elements

\* C14: a Date is written as tag 100 around the number of days from
\* 1970-01-01 to its local calendar day, whatever its time of day.
C14_DateAsDays ==
  (cbor.op = "encode" /\ cbor.value.t = "date")
  => cbor.wire = CborHdr(MAJOR_TAG, TAG_DATE_DAYS) \o CborWriteInteger(cbor.value.v.day)

\* The typed-array tags of the floats of 16 and 128 bits.
UnsupportedFloatTags == {TAG_FLOAT16_BE, TAG_FLOAT16_LE, TAG_FLOAT128_BE, TAG_FLOAT128_LE}

\* The bytes w are one of those tags around a whole byte string.
HalfOrQuadArray(w) ==
  /\ Len(w) >= 3
  /\ w[1] = MAJOR_TAG * 32 + 24
  /\ w[2] \in UnsupportedFloatTags
  /\ w[3] \div 32 = MAJOR_BIN
  /\ validate(NewCborDecoder, w, 0, Len(w)).err = ""

\* C15: decoding a typed array whose tag is 80, 83, 84 or 87 (floats of 16
\* or 128 bits) fails with "Unsupported floating point format"; whatever
\* follows such a tag, the decoder returns no value for it.
C15_UnsupportedFloat ==
  (/\ cbor.op = "decode"
   /\ Len(cbor.wire) >= 2
   /\ cbor.wire[1] = MAJOR_TAG * 32 + 24
   /\ cbor.wire[2] \in UnsupportedFloatTags)
  => /\ cbor.d.err # ""
     /\ HalfOrQuadArray(cbor.wire) => cbor.d.err = ERR_UNSUPPORTED_FLOAT

C15_Witness ==
  /\ cbor.op = "decode"
  /\ HalfOrQuadArray(cbor.wire)
  /\ cbor.wire[2] = TAG_FLOAT128_LE
  /\ cbor.wire[3] = MAJOR_BIN * 32 + 31
  /\ cbor.d.err = ERR_UNSUPPORTED_FLOAT
  /\ cbor.d.x = Len(cbor.wire)

(***************************************************************************)
(* The value a path resolves to: a string segment names the key of an      *)
(* object, a number the index of an array, counted from 0.                 *)
(***************************************************************************)
HasKey(entries, k) == \E j \in 1..Len(entries) : entries[j][1] = k

EntryOf(entries, k) == entries[CHOOSE j \in 1..Len(entries) : entries[j][1] = k][2]

\* The segment resolves in the value v.
Steps(v, segment) ==
  IF segment.t = "key" THEN v.t = "obj" /\ HasKey(v.v, segment.k)
  ELSE v.t = "arr" /\ segment.i >= 0 /\ segment.i < Len(v.v)

Step(v, segment) ==
  IF segment.t = "key" THEN EntryOf(v.v, segment.k) ELSE v.v[segment.i + 1]

RECURSIVE Resolves(_, _, _)
Resolves(v, path, i) ==
  IF i > Len(path) THEN TRUE
  ELSE Steps(v, path[i]) /\ Resolves(Step(v, path[i]), path, i + 1)

RECURSIVE resolvePath(_, _, _)
resolvePath(v, path, i) ==
  IF i > Len(path) THEN v ELSE resolvePath(Step(v, path[i]), path, i + 1)

\* The bytes of data from the cursor x on begin with the bytes of encoded.
EncodedAt(data, x, encoded) ==
  /\ x + Len(encoded) <= Len(data)
  /\ SubSeq(data, x + 1, x + Len(encoded)) = encoded

\* The decoder d stands at the first byte of the encoding of the value v,
\* and r, which read a value from there, read v.
FoundAt(d, r, isLittleEndian, v) ==
  /\ d.err = ""
  /\ EncodedAt(d.data, d.x, CborEncode(isLittleEndian, v))
  /\ r.err = ""
  /\ r.x = d.x + Len(CborEncode(isLittleEndian, v))
  /\ Equiv(r.val, v)

\* C16: for a value the encoder wrote and a path that resolves in it, find
\* leaves the cursor at the first byte of the encoding of the value the path
\* resolves to, and decoding from the cursor gives that value.
C16_FindResolves ==
  (cbor.op = "find" /\ Resolves(cbor.value, cbor.path, 1))
  => FoundAt(cbor.d, cbor.at, cbor.host, resolvePath(cbor.value, cbor.path, 1))

C16_Witness ==
  /\ cbor.op = "find"
  /\ cbor.path = << KeySeg(<< 97 >>), KeySeg(<< 98 >>), IndexSeg(1) >>
  /\ Resolves(cbor.value, cbor.path, 1)
  /\ cbor.d.err = ""
  /\ cbor.d.x > Len(cbor.path)
  /\ cbor.wire[cbor.d.x + 1] = 20
  /\ Equiv(cbor.at.val, NumV(20))

\* The error find owes to the segment that does not resolve in the value v:
\* an index not below the length of an array, a string that is no key of
\* an object.  Another segment owes none ("").
MissError(v, segment) ==
  IF segment.t = "index" /\ v.t = "arr" /\ segment.i >= Len(v.v) THEN INDEX_OUT_OF_BOUNDS
  ELSE IF segment.t = "key" /\ v.t = "obj" /\ ~HasKey(v.v, segment.k) THEN KEY_NOT_FOUND
  ELSE ""

\* The error find owes to the first segment of the path that does not
\* resolve, "" when there is none or it owes none.
RECURSIVE PathError(_, _, _)
PathError(v, path, i) ==
  IF i > Len(path) THEN ""
  ELSE IF Steps(v, path[i]) THEN PathError(Step(v, path[i]), path, i + 1)
  ELSE MissError(v, path[i])

\* C17: find fails with INDEX_OUT_OF_BOUNDS when a number segment is greater
\* than or equal to the length of the array it is applied to, and with
\* KEY_NOT_FOUND when a string segment is no key of the object it is applied
\* to; it returns no cursor then.
C17_FindFails ==
  (cbor.op = "find" /\ PathError(cbor.value, cbor.path, 1) # "")
  => cbor.d.err = PathError(cbor.value, cbor.path, 1)

C17_Witness ==
  /\ cbor.op = "find"
  /\ cbor.path = << KeySeg(<< 97 >>), KeySeg(<< 98 >>), IndexSeg(3) >>
  /\ PathError(cbor.value, cbor.path, 1) = INDEX_OUT_OF_BOUNDS
  /\ cbor.d.err = INDEX_OUT_OF_BOUNDS

\* A witness of the other error of C17: a key that the object does not have.
C17_WitnessKey ==
  /\ cbor.op = "find"
  /\ cbor.path = << KeySeg(<< 97 >>), KeySeg(<< 120 >>) >>
  /\ PathError(cbor.value, cbor.path, 1) = KEY_NOT_FOUND
  /\ cbor.d.err = KEY_NOT_FOUND

(***************************************************************************)
(* Well-formed CBOR, as RFC 8949 defines it (Appendix C).  The result of   *)
(* WellFormed is the offset after the data item that begins at offset x    *)
(* and r: the major type of an item of definite length, 99 for one of      *)
(* indefinite length, -1 for a break that the caller allows, -2 when the   *)
(* bytes are not well-formed or end too early.                             *)
(***************************************************************************)
NotWellFormed == [x |-> 0, r |-> 0 - 2]

RECURSIVE WellFormed(_, _, _)
RECURSIVE WfItems(_, _, _, _)
RECURSIVE WfChunks(_, _, _)
RECURSIVE WfArrIndef(_, _)
RECURSIVE WfMapIndef(_, _)

WfItemsNext(res, data, n, mt) ==
  IF res.r = 0 - 2 THEN res ELSE WfItems(data, res.x, n - 1, mt)

\* n data items, none of them a break
WfItems(data, x, n, mt) ==
  IF n = 0 THEN [x |-> x, r |-> mt]
  ELSE WfItemsNext(WellFormed(data, x, FALSE), data, n, mt)

\* Chunks of definite length of the major type mt, up to a break.
WfChunksNext(res, data, mt) ==
  IF res.r = 0 - 1 THEN [x |-> res.x, r |-> 99]
  ELSE IF res.r # mt THEN NotWellFormed
  ELSE WfChunks(data, res.x, mt)

WfChunks(data, x, mt) == WfChunksNext(WellFormed(data, x, TRUE), data, mt)

WfArrIndefNext(res, data) ==
  IF res.r = 0 - 2 THEN res
  ELSE IF res.r = 0 - 1 THEN [x |-> res.x, r |-> 99]
  ELSE WfArrIndef(data, res.x)

WfArrIndef(data, x) == WfArrIndefNext(WellFormed(data, x, TRUE), data)

WfMapValue(res, data) ==
  IF res.r = 0 - 2 THEN res ELSE WfMapIndef(data, res.x)

WfMapKey(res, data) ==
  IF res.r = 0 - 2 THEN res
  ELSE IF res.r = 0 - 1 THEN [x |-> res.x, r |-> 99]
  ELSE WfMapValue(WellFormed(data, res.x, FALSE), data)

WfMapIndef(data, x) == WfMapKey(WellFormed(data, x, TRUE), data)

\* well_formed_indefinite(mt, breakable)
WfIndefinite(data, x, mt, breakable) ==
  CASE mt \in {2, 3} -> WfChunks(data, x, mt)
    [] mt = 4 -> WfArrIndef(data, x)
    [] mt = 5 -> WfMapIndef(data, x)
    [] mt = 7 -> IF breakable THEN [x |-> x, r |-> 0 - 1] ELSE NotWellFormed
    [] OTHER -> NotWellFormed

\* The content of an item of definite length whose head has the additional
\* information ai and the argument v.
WfContent(data, x, mt, ai, v) ==
  CASE mt \in {0, 1} -> [x |-> x, r |-> mt]
    [] mt \in {2, 3} -> IF v > Len(data) - x THEN NotWellFormed ELSE [x |-> x + v, r |-> mt]
    [] mt = 4 -> IF v > Len(data) THEN NotWellFormed ELSE WfItems(data, x, v, mt)
    [] mt = 5 -> IF v > Len(data) THEN NotWellFormed ELSE WfItems(data, x, v * 2, mt)
    [] mt = 6 -> WfItems(data, x, 1, mt)
    [] mt = 7 -> IF ai = 24 /\ v < 32 THEN NotWellFormed ELSE [x |-> x, r |-> mt]

\* The head whose first byte, of major type mt and additional information
\* ai, lies before the offset x.
WfHead(data, x, mt, ai, breakable) ==
  IF ai < 24 THEN WfContent(data, x, mt, ai, ai)
  ELSE IF ai \in 24..27
    THEN IF x + 2 ^ (ai - 24) > Len(data) THEN NotWellFormed
         ELSE WfContent(data, x + 2 ^ (ai - 24), mt, ai,
                        CborUint(SubSeq(data, x + 1, x + 2 ^ (ai - 24))))
  ELSE IF ai = 31 THEN WfIndefinite(data, x, mt, breakable)
  ELSE NotWellFormed

\* well_formed(breakable), on the bytes of data from the offset x
WellFormed(data, x, breakable) ==
  IF x >= Len(data) THEN NotWellFormed
  ELSE WfHead(data, x + 1, data[x + 1] \div 32, data[x + 1] % 32, breakable)

\* One well-formed data item begins at offset and takes exactly size bytes
\* of data.
WellFormedSpan(data, offset, size) ==
  /\ WellFormed(data, offset, FALSE).r >= 0
  /\ WellFormed(data, offset, FALSE).x = offset + size
  /\ offset + size <= Len(data)

\* C18: validate(value, offset, size) returns normally only if one
\* well-formed CBOR value begins at offset and takes exactly size bytes, all
\* of them within the buffer.
C18_ValidateWellFormed ==
  (cbor.op = "validate" /\ cbor.d.err = "")
  => WellFormedSpan(cbor.wire, cbor.offset, cbor.size)

(***************************************************************************)
(* JsonDecoder and JsonDecoderPartial.  A decoder is data and x of its     *)
(* reader, err the message of the error thrown ("" for none) and val the   *)
(* value returned.  JsonDecoder itself (readAny, skipWhitespace, readKey,  *)
(* the strings, numbers and literals, its own readArr and readObj) is not  *)
(* part of these sources: it is the recursive descent of RFC 8259 that     *)
(* section 4.6 of the specification describes.  The strings of the texts   *)
(* decoded here have no escapes and the numbers no fraction.               *)
(***************************************************************************)
ERR_INVALID_JSON == "Invalid JSON"

NewJsonDecoder == [data |-> << >>, x |-> 0, err |-> "", val |-> NullV]

\* uint8[reader.x]: the byte at the cursor, -1 for undefined past the end
CharAt(d) == IF d.x < Len(d.data) THEN d.data[d.x + 1] ELSE 0 - 1

\* skipWhitespace(): over spaces, tabs, line feeds and carriage returns
RECURSIVE skipWhitespace(_)
skipWhitespace(d) ==
  IF d.err = "" /\ CharAt(d) \in {32, 9, 10, 13} THEN skipWhitespace(Advance(d, 1)) ELSE d

\* The index of the first quote of data after the index i, 0 when none is left.
RECURSIVE EndingQuote(_, _)
EndingQuote(data, i) ==
  IF i >= Len(data) THEN 0
  ELSE IF data[i + 1] = 34 THEN i + 1
  ELSE EndingQuote(data, i + 1)

\* readKey(reader), the cursor after the opening quote: the string up to the
\* closing quote, the cursor left after it.  A string that the text does
\* not close runs out of the buffer.
readKey(d) ==
  IF EndingQuote(d.data, d.x) = 0 THEN Fail(d, ERR_UNEXPECTED_END)
  ELSE Return(At(d, EndingQuote(d.data, d.x)),
              StrV(Utf8Decode(SubSeq(d.data, d.x + 1, EndingQuote(d.data, d.x) - 1))))

\* readStr(), the cursor at the opening quote
JsonReadStr(d) == readKey(Advance(d, 1))

\* readTrue(), readFalse(), readNull(): the letters of the literal, or an error
JsonReadLiteral(d, letters, v) ==
  IF d.x + Len(letters) <= Len(d.data) /\ SubSeq(d.data, d.x + 1, d.x + Len(letters)) = letters
    THEN Return(Advance(d, Len(letters)), v)
    ELSE Fail(d, ERR_INVALID_JSON)

\* The characters of a number after the index i: digits, ".", "e", "E", "+", "-".
RECURSIVE NumberEnd(_, _)
NumberEnd(data, i) ==
  IF i < Len(data) /\ data[i + 1] \in (48..57) \cup {46, 101, 69, 43, 45}
    THEN NumberEnd(data, i + 1)
    ELSE i

\* The number of decimal digits.
RECURSIVE DigitsVal(_, _)
DigitsVal(digits, acc) ==
  IF digits = << >> THEN acc ELSE DigitsVal(Tail(digits), acc * 10 + (Head(digits) - 48))

\* The number of the characters of token: digits after an optional minus.
JsonNumber(d, token) ==
  IF token # << >> /\ \A i \in 1..Len(token) : token[i] \in 48..57
    THEN Return(d, NumV(DigitsVal(token, 0)))
  ELSE IF Len(token) > 1 /\ token[1] = 45 /\ \A i \in 2..Len(token) : token[i] \in 48..57
    THEN Return(d, NumV(0 - DigitsVal(Tail(token), 0)))
  ELSE Fail(d, ERR_INVALID_JSON)

\* readNum()
JsonReadNum(d) ==
  JsonNumber(At(d, NumberEnd(d.data, d.x)), SubSeq(d.data, d.x + 1, NumberEnd(d.data, d.x)))

RECURSIVE JsonReadAny(_, _)
RECURSIVE partialArrLoop(_, _)
RECURSIVE partialObjLoop(_, _)
RECURSIVE strictArrItems(_, _)
RECURSIVE strictObjEntries(_, _)

(***************************************************************************)
(* JsonDecoderPartial                                                      *)
(***************************************************************************)
\* The try of readArr without its catch: every error is thrown again.
partialArrPushNoCatch(r, arr) ==
  IF r.err # "" THEN r ELSE partialArrLoop(r, Append(arr, r.val))

\* The try of readArr after this.readAny(), which r has done: the element is
\* pushed, or the array is returned on "Invalid JSON", or the error is
\* thrown again.
partialArrPush(r, arr) ==
  IF r.err = ERR_INVALID_JSON THEN Return([r EXCEPT !.err = ""], ArrV(arr))
  ELSE IF r.err # "" THEN r
  ELSE partialArrLoop(r, Append(arr, r.val))

\* The loop of readArr after skipWhitespace()
partialArrAt(d, arr) ==
  IF CharAt(d) = 93 THEN Return(Advance(d, 1), ArrV(arr))
  ELSE IF CharAt(d) = 44 THEN partialArrLoop(Advance(d, 1), arr)
  ELSE partialArrPush(JsonReadAny(d, TRUE), arr)

\* while (true) of readArr
partialArrLoop(d, arr) == partialArrAt(skipWhitespace(d), arr)

\* JsonDecoderPartial.readArr(), the cursor at "["
partialReadArr(d) == partialArrLoop(Advance(d, 1), << >>)

\* The catch of readObj: the object is returned on "Invalid JSON", another
\* error is thrown again.
partialObjCatch(r, obj) ==
  IF r.err = ERR_INVALID_JSON THEN Return([r EXCEPT !.err = ""], ObjV(obj)) ELSE r

\* obj[key] = this.readAny(), which r has done
partialObjSet(r, obj, k) ==
  IF r.err # "" THEN partialObjCatch(r, obj)
  ELSE partialObjLoop(r, SetEntry(obj, k, r.val))

\* if (reader.u8() !== 0x3a) throw ..., after the skipWhitespace() before it
partialObjColon(d, obj, k) ==
  IF d.x >= Len(d.data) THEN partialObjCatch(Fail(d, ERR_UNEXPECTED_END), obj)
  ELSE IF CharAt(d) # 58 THEN partialObjCatch(Fail(Advance(d, 1), ERR_INVALID_JSON), obj)
  ELSE partialObjSet(JsonReadAny(skipWhitespace(Advance(d, 1)), TRUE), obj, k)

\* The try of readObj after readKey(reader), which r has done
partialObjKey(r, obj) ==
  IF r.err # "" THEN partialObjCatch(r, obj)
  ELSE IF r.val.v = << 95, 95, 112, 114, 111, 116, 111, 95, 95 >>
    THEN partialObjCatch(Fail(r, ERR_INVALID_JSON), obj)
  ELSE partialObjColon(skipWhitespace(r), obj, r.val.v)

\* The loop of readObj after skipWhitespace()
partialObjAt(d, obj) ==
  IF CharAt(d) = 125 THEN Return(Advance(d, 1), ObjV(obj))
  ELSE IF CharAt(d) = 44 THEN partialObjLoop(Advance(d, 1), obj)
  ELSE IF CharAt(d) # 34 THEN partialObjCatch(Fail(Advance(d, 1), ERR_INVALID_JSON), obj)
  ELSE partialObjKey(readKey(Advance(d, 1)), obj)

\* while (true) of readObj
partialObjLoop(d, obj) == partialObjAt(skipWhitespace(d), obj)

\* JsonDecoderPartial.readObj(), the cursor at "{"
partialReadObj(d) ==
  IF CharAt(d) # 123 THEN Fail(Advance(d, 1), ERR_INVALID_JSON)
  ELSE partialObjLoop(Advance(d, 1), << >>)

(***************************************************************************)
(* JsonDecoder: the arrays and objects of the strict decoder, and readAny. *)
(***************************************************************************)
\* After an element of an array: "]" ends it, "," brings the next element.
strictArrNext(d, arr) ==
  IF d.err # "" THEN d
  ELSE IF CharAt(d) = 93 THEN Return(Advance(d, 1), ArrV(arr))
  ELSE IF CharAt(d) = 44 THEN strictArrItems(Advance(d, 1), arr)
  ELSE Fail(d, ERR_INVALID_JSON)

strictArrPush(r, arr) ==
  IF r.err # "" THEN r ELSE strictArrNext(skipWhitespace(r), Append(arr, r.val))

strictArrItems(d, arr) == strictArrPush(JsonReadAny(d, FALSE), arr)

strictArrAt(d) ==
  IF CharAt(d) = 93 THEN Return(Advance(d, 1), ArrV(<< >>)) ELSE strictArrItems(d, << >>)

\* JsonDecoder.readArr(), the cursor at "["
strictReadArr(d) == strictArrAt(skipWhitespace(Advance(d, 1)))

strictObjNext(d, obj) ==
  IF d.err # "" THEN d
  ELSE IF CharAt(d) = 125 THEN Return(Advance(d, 1), ObjV(obj))
  ELSE IF CharAt(d) = 44 THEN strictObjEntries(skipWhitespace(Advance(d, 1)), obj)
  ELSE Fail(d, ERR_INVALID_JSON)

strictObjSet(r, obj, k) ==
  IF r.err # "" THEN r ELSE strictObjNext(skipWhitespace(r), SetEntry(obj, k, r.val))

strictObjColon(d, obj, k) ==
  IF CharAt(d) # 58 THEN Fail(d, ERR_INVALID_JSON)
  ELSE strictObjSet(JsonReadAny(Advance(d, 1), FALSE), obj, k)

\* A key equal to __proto__ is a parse error.
strictObjKey(r, obj) ==
  IF r.err # "" THEN r
  ELSE IF r.val.v = << 95, 95, 112, 114, 111, 116, 111, 95, 95 >> THEN Fail(r, ERR_INVALID_JSON)
  ELSE strictObjColon(skipWhitespace(r), obj, r.val.v)

strictObjEntries(d, obj) ==
  IF CharAt(d) # 34 THEN Fail(d, ERR_INVALID_JSON)
  ELSE strictObjKey(readKey(Advance(d, 1)), obj)

strictObjAt(d) ==
  IF CharAt(d) = 125 THEN Return(Advance(d, 1), ObjV(<< >>)) ELSE strictObjEntries(d, << >>)

\* JsonDecoder.readObj(), the cursor at "{"
strictReadObj(d) == strictObjAt(skipWhitespace(Advance(d, 1)))

\* readAny() after skipWhitespace(): the value is told by its first character.
JsonReadAnyAt(d, partial) ==
  CASE CharAt(d) = 34 -> JsonReadStr(d)
    [] CharAt(d) = 91 -> IF partial THEN partialReadArr(d) ELSE strictReadArr(d)
    [] CharAt(d) = 123 -> IF partial THEN partialReadObj(d) ELSE strictReadObj(d)
    [] CharAt(d) = 116 -> JsonReadLiteral(d, << 116, 114, 117, 101 >>, BoolV(TRUE))
    [] CharAt(d) = 102 -> JsonReadLiteral(d, << 102, 97, 108, 115, 101 >>, BoolV(FALSE))
    [] CharAt(d) = 110 -> JsonReadLiteral(d, << 110, 117, 108, 108 >>, NullV)
    [] CharAt(d) \in (48..57) \cup {45} -> JsonReadNum(d)
    [] OTHER -> Fail(d, ERR_INVALID_JSON)

\* readAny()
JsonReadAny(d, partial) ==
  IF d.err # "" THEN d ELSE JsonReadAnyAt(skipWhitespace(d), partial)

\* decoder.reader.reset(data); decoder.readAny()
JsonDecode(text, partial) == JsonReadAny([NewJsonDecoder EXCEPT !.data = text], partial)

(***************************************************************************)
(* The texts the JSON decoders are given.  JsonTable: texts that end, or   *)
(* have an element that is no JSON, inside an array or object; kind tells  *)
(* which ("ends", "malformed"), whole is the outermost container with the  *)
(* elements or entries whose text is complete before that point, assembled *)
(* the container with what was assembled of the unfinished ones as well.   *)
(* JsonFull: whole documents, which are decoded up to every length.        *)
(***************************************************************************)
JsonTable ==
  << [text |-> << 91, 49, 44, 32, 50, 44, 32, 51, 32 >>,
      kind |-> "ends",
      whole |-> ArrV(<< NumV(1), NumV(2), NumV(3) >>),
      assembled |-> ArrV(<< NumV(1), NumV(2), NumV(3) >>)],
     [text |-> << 91, 49, 44, 32, 50, 44, 32, 51 >>,
      kind |-> "ends",
      whole |-> ArrV(<< NumV(1), NumV(2), NumV(3) >>),
      assembled |-> ArrV(<< NumV(1), NumV(2), NumV(3) >>)],
     [text |-> << 91, 49, 44, 32, 50, 44, 32 >>,
      kind |-> "ends",
      whole |-> ArrV(<< NumV(1), NumV(2) >>),
      assembled |-> ArrV(<< NumV(1), NumV(2) >>)],
     [text |-> << 91, 49, 44, 32, 50, 44 >>,
      kind |-> "ends",
      whole |-> ArrV(<< NumV(1), NumV(2) >>),
      assembled |-> ArrV(<< NumV(1), NumV(2) >>)],
     [text |-> << 91, 116, 114, 117, 101, 44, 32, 34, 97, 115, 100, 102, 34, 44, 44 >>,
      kind |-> "ends",
      whole |-> ArrV(<< BoolV(TRUE), StrV(<< 97, 115, 100, 102 >>) >>),
      assembled |-> ArrV(<< BoolV(TRUE), StrV(<< 97, 115, 100, 102 >>) >>)],
     [text |-> << 123, 34, 102, 111, 111, 34, 58, 32, 49, 44, 32, 34, 98, 97, 114, 34, 58 >>,
      kind |-> "ends",
      whole |-> ObjV(<< << << 102, 111, 111 >>, NumV(1) >> >>),
      assembled |-> ObjV(<< << << 102, 111, 111 >>, NumV(1) >> >>)],
     [text |-> << 123, 34, 97, 34, 58, 49, 44, 34, 98, 34, 58 >>,
      kind |-> "ends",
      whole |-> ObjV(<< << << 97 >>, NumV(1) >> >>),
      assembled |-> ObjV(<< << << 97 >>, NumV(1) >> >>)],
     [text |-> << 91 >>,
      kind |-> "ends",
      whole |-> ArrV(<< >>),
      assembled |-> ArrV(<< >>)],
     [text |-> << 123 >>,
      kind |-> "ends",
      whole |-> ObjV(<< >>),
      assembled |-> ObjV(<< >>)],
     [text |-> << 91, 49, 44, 32, 50, 44, 32, 120, 44, 32, 52, 93 >>,
      kind |-> "malformed",
      whole |-> ArrV(<< NumV(1), NumV(2) >>),
      assembled |-> ArrV(<< NumV(1), NumV(2) >>)],
     [text |-> << 91, 49, 44, 32, 50, 44, 32, 45 >>,
      kind |-> "malformed",
      whole |-> ArrV(<< NumV(1), NumV(2) >>),
      assembled |-> ArrV(<< NumV(1), NumV(2) >>)],
     [text |-> << 123, 34, 97, 34, 58, 32, 49, 44, 32, 34, 98, 34, 58, 32, 116, 114, 117, 44, 32, 34, 99, 34, 58, 32, 51, 125 >>,
      kind |-> "malformed",
      whole |-> ObjV(<< << << 97 >>, NumV(1) >> >>),
      assembled |-> ObjV(<< << << 97 >>, NumV(1) >> >>)],
     [text |-> << 123, 34, 97, 34, 58, 32, 49, 44, 32, 98 >>,
      kind |-> "malformed",
      whole |-> ObjV(<< << << 97 >>, NumV(1) >> >>),
      assembled |-> ObjV(<< << << 97 >>, NumV(1) >> >>)],
     [text |-> << 123, 34, 97, 34, 58, 32, 49, 44, 32, 34, 98, 34, 32, 50, 125 >>,
      kind |-> "malformed",
      whole |-> ObjV(<< << << 97 >>, NumV(1) >> >>),
      assembled |-> ObjV(<< << << 97 >>, NumV(1) >> >>)],
     [text |-> << 91, 49, 44, 32, 91, 50, 44, 32, 51 >>,
      kind |-> "ends",
      whole |-> ArrV(<< NumV(1) >>),
      assembled |-> ArrV(<< NumV(1), ArrV(<< NumV(2), NumV(3) >>) >>)],
     [text |-> << 123, 34, 97, 34, 58, 32, 49, 44, 32, 34, 98, 34, 58, 32, 91, 50, 44, 32 >>,
      kind |-> "ends",
      whole |-> ObjV(<< << << 97 >>, NumV(1) >> >>),
      assembled |-> ObjV(<< << << 97 >>, NumV(1) >>, << << 98 >>, ArrV(<< NumV(2) >>) >> >>)],
     [text |-> << 123, 34, 97, 34, 58, 32, 123, 34, 98, 34, 58, 32, 49, 44, 32, 34, 99, 34, 58, 32, 102, 97, 108, 115 >>,
      kind |-> "malformed",
      whole |-> ObjV(<< >>),
      assembled |-> ObjV(<< << << 97 >>, ObjV(<< << << 98 >>, NumV(1) >> >>) >> >>)],
     [text |-> << 91, 91, 49, 44, 32, 120, 93, 44, 32, 50, 93 >>,
      kind |-> "malformed",
      whole |-> ArrV(<< >>),
      assembled |-> ArrV(<< ArrV(<< NumV(1) >>) >>)],
     [text |-> << 91, 45, 55, 44, 32, 123, 34, 107, 34, 58, 32, 110, 117, 108, 108, 44, 32, 34, 109, 34, 58, 32, 91 >>,
      kind |-> "ends",
      whole |-> ArrV(<< NumV(0 - 7) >>),
      assembled |-> ArrV(<< NumV(0 - 7), ObjV(<< << << 107 >>, NullV >>, << << 109 >>, ArrV(<< >>) >> >>) >>)] >>

JsonFull ==
  << << 123, 34, 97, 34, 58, 49, 44, 34, 95, 95, 112, 114, 111, 116, 111, 95, 95, 34, 58, 50, 44, 34, 98, 34, 58, 51, 125 >>,
     << 91, 49, 44, 32, 91, 50, 44, 32, 123, 34, 107, 34, 58, 32, 91, 51, 44, 32, 52, 93, 44, 32, 34, 109, 34, 58, 32, 102, 97, 108, 115, 101, 125, 93, 44, 32, 53, 93 >>,
     << 123, 34, 102, 111, 111, 34, 58, 32, 49, 44, 32, 34, 98, 97, 114, 34, 58, 32, 91, 116, 114, 117, 101, 44, 32, 34, 120, 34, 44, 32, 110, 117, 108, 108, 93, 125 >>,
     << 91, 123, 34, 95, 95, 112, 114, 111, 116, 111, 95, 95, 34, 58, 32, 123, 34, 120, 34, 58, 32, 49, 125, 125, 44, 32, 55, 93 >>,
     << 91, 116, 114, 117, 101, 44, 32, 34, 97, 115, 100, 102, 34, 44, 44, 32, 44, 32, 52, 93 >> >>

\* The texts: those of the table, then the whole documents.
JsonTexts == [k \in 1..(Len(JsonTable) + Len(JsonFull)) |->
                IF k <= Len(JsonTable) THEN JsonTable[k].text ELSE JsonFull[k - Len(JsonTable)]]

\* new JsonDecoderPartial(): reader.reset(data); readAny(), data the first n
\* bytes of a text
PartialReadAny(k, n) ==
  /\ json.op = "none"
  /\ json' = [op |-> "partial", doc |-> k, text |-> SubSeq(JsonTexts[k], 1, n),
              d |-> JsonDecode(SubSeq(JsonTexts[k], 1, n), TRUE)]
  /\ UNCHANGED << codec, vint, cbor >>

\* new JsonDecoder(): reader.reset(data); readAny()
StrictReadAny(k, n) ==
  /\ json.op = "none"
  /\ json' = [op |-> "strict", doc |-> k, text |-> SubSeq(JsonTexts[k], 1, n),
              d |-> JsonDecode(SubSeq(JsonTexts[k], 1, n), FALSE)]
  /\ UNCHANGED << codec, vint, cbor >>

InitJson ==
  /\ InitCodec
  /\ options = DefaultOptions
  /\ vint = NoVInt
  /\ cbor = NoCbor
  /\ json = NoJson

NextJson ==
  \/ \E k \in 1..Len(JsonTexts) : \E n \in 0..Len(JsonTexts[k]) : PartialReadAny(k, n)
  \/ \E k \in 1..Len(JsonTexts) : \E n \in 0..Len(JsonTexts[k]) : StrictReadAny(k, n)

SpecJson == InitJson /\ [][NextJson]_vars

\* The partial decoder was given a whole text of the table.
TableCase ==
  /\ json.op = "partial"
  /\ json.doc <= Len(JsonTable)
  /\ json.text = JsonTable[json.doc].text

HasProtoKey(text) ==
  \E i \in 1..(Len(text) - 11) :
    SubSeq(text, i, i + 11) = << 34, 95, 95, 112, 114, 111, 116, 111, 95, 95, 34, 58 >>

\* C20: decoding an object that has a key equal to __proto__ ends the whole
\* call with an error, in the partial decoder as in the strict one: no value
\* is returned for that text.
C20_ProtoKeyFatal ==
  (json.op # "none" /\ HasProtoKey(json.text)) => json.d.err # ""

(***************************************************************************)
(* The shared tables of one encoder over many calls.  An encoder with both *)
(* tables on encodes one object {name: name} after another, each name a    *)
(* string no call had before, so that both tables grow by one entry per    *)
(* call; at any point it encodes one string or one key instead, a new one  *)
(* or one that a table holds at a given index.                             *)
(***************************************************************************)
\* The calls made in a row: enough to pass the MAX_REFERENCES entries of a table.
MaxShareCalls == 1030

\* Every option on but rawBinaryEnabled.
SharingOptions ==
  [sharedStringValues |-> TRUE, sharedPropertyNames |-> TRUE, rawBinaryEnabled |-> FALSE]

\* The n-th name: three characters of "0" to "O".
Name(n) == << 48 + (n \div 1024), 48 + ((n \div 32) % 32), 48 + (n % 32) >>

\* The indices at which a string or key of a table is encoded again.
SeenIndices == {0, 30, 31, 32, 63, 64, 94, 95, 253, 254, 255, 318, 319, 1022, 1023}

\* Only objects {name: name} were encoded so far.
Filling == encCalls = 0 \/ (value.t = "obj" /\ value.v[1][2].t = "str")

\* encoder.encode(v)
EncodeShared(v) ==
  /\ Filling
  /\ encCalls < MaxShareCalls
  /\ wire' = encode(options, enc, v).out
  /\ enc' = [encode(options, enc, v) EXCEPT !.out = << >>]
  /\ encEntry' = enc
  /\ value' = v
  /\ encCalls' = encCalls + 1
  /\ UNCHANGED << options, dec, decCalls, decEntry, full, ref, others >>

\* encoder.encode({name: name}), name a new string
EncodeEntry == EncodeShared(ObjV(<< << Name(encCalls), StrV(Name(encCalls)) >> >>))

\* encoder.encode(name), name a new string
EncodeNewString == EncodeShared(StrV(Name(encCalls)))

\* encoder.encode(str), str the string the value table holds at index i
EncodeSeenString(i) == i < Len(enc.sv) /\ EncodeShared(StrV(enc.sv[i + 1]))

\* encoder.encode({name: null}), name a new string
EncodeNewKey == EncodeShared(ObjV(<< << Name(encCalls), NullV >> >>))

\* encoder.encode({key: null}), key the string the key table holds at index i
EncodeSeenKey(i) == i < Len(enc.sk) /\ EncodeShared(ObjV(<< << enc.sk[i + 1], NullV >> >>))

InitShare ==
  /\ InitCodec
  /\ options = SharingOptions
  /\ Idle

NextShare ==
  \/ EncodeEntry
  \/ EncodeNewString
  \/ \E i \in SeenIndices : EncodeSeenString(i)
  \/ EncodeNewKey
  \/ \E i \in SeenIndices : EncodeSeenKey(i)

SpecShare == InitShare /\ [][NextShare]_vars

\* The strings of a table.
Held(table) == {table[i] : i \in 1..Len(table)}

\* The bytes the last call wrote, after those the writer held before it.
Written == SubSeq(wire, Len(encEntry.out) + 1, Len(wire))

\* The last call encoded one string, which is in the table or not.
StringCall == encCalls >= 1 /\ value.t = "str"

C21_WitnessAbsent ==
  /\ StringCall
  /\ Len(encEntry.sv) = 255
  /\ value.v \notin Held(encEntry.sv)
  /\ enc.sv = Append(encEntry.sv, value.v)

\* The last call found a table with MAX_REFERENCES entries and added to it.
AddedAtCap(before, after) == Len(before) >= MAX_REFERENCES /\ after # before

\* C22: when a string is added to a shared table that holds 1024 entries, the
\* table is emptied and the string becomes its entry 0: after the call the
\* table holds that string and nothing else.
C22_ClearAndRestart ==
  /\ (encCalls >= 1 /\ AddedAtCap(encEntry.sv, enc.sv))
       => enc.sv = << IF value.t = "str" THEN value.v ELSE value.v[1][2].v >>
  /\ (encCalls >= 1 /\ AddedAtCap(encEntry.sk, enc.sk))
       => enc.sk = << value.v[1][1] >>

\* The indices of a table with entries whose low byte is 0xFE or 0xFF.
AvoidedIndices(table) == {i \in 0..(Len(table) - 1) : i % 256 \in {254, 255}}

\* The last call encoded {key: null} for a key the table held at index 64 or
\* above: the bytes written are START_OBJECT, the two bytes of the long
\* reference, null and END_OBJECT.
LongKeyReferenceCall ==
  /\ encCalls >= 1
  /\ value.t = "obj"
  /\ value.v[1][2].t = "null"
  /\ MapGet(encEntry.sk, value.v[1][1]) >= 64

\* C23: no string is stored in a shared table at an index whose low byte is
\* 0xFE or 0xFF, and the second byte of a long shared key reference is never
\* 0xFE or 0xFF.
C23_AvoidedNeverUsed ==
  /\ AvoidedIndices(enc.sv) = {}
  /\ AvoidedIndices(enc.sk) = {}
  /\ LongKeyReferenceCall => Written[3] \notin {254, 255}

(***************************************************************************)
(* SmileEncoder.ts: the class SmileEncoder that stands alone, with its own *)
(* writeString, writeKey and tables (the class of the same name that       *)
(* extends SmileEncoderBase adds nothing to the base but create).  The     *)
(* encoder is the record of SmileEncoderBase; log is left alone.  Its      *)
(* methods that SmileEncoderBase has under the same name are named here    *)
(* with SmileEncoder in front.  Numbers take no part.                      *)
(***************************************************************************)
\* isAsciiString(str): no charCodeAt above 127
isAsciiString(str) == \A i \in 1..Len(str) : str[i] <= 127

\* addSharedValue(value) and addSharedKey(key), on the table: the table after
\* them, with an index that is skipped when its low byte is 0xFE or 0xFF.
addSharedValue(table, str) ==
  IF (Len(IF Len(table) >= MAX_REFERENCES THEN << >> ELSE table)) % 256 \in {254, 255}
    THEN (IF Len(table) >= MAX_REFERENCES THEN << >> ELSE table)
    ELSE Append(IF Len(table) >= MAX_REFERENCES THEN << >> ELSE table, str)

SmileEncoderAddSharedKey(table, name) == addSharedValue(table, name)

\* writeSharedValueReference(index)
writeSharedValueReference(e, index) ==
  IF index < MAX_SHORT_REFERENCE
    THEN EncU8(e, SHORT_SHARED_VALUE_MIN + index)
    ELSE EncU8(EncU8(e, SHARED_STRING_LONG + (((index - MIN_LONG_REFERENCE) \div 256) % 4)),
               (index - MIN_LONG_REFERENCE) % 256)

\* writeSharedKeyReference(index)
writeSharedKeyReference(e, index) ==
  IF index <= 63
    THEN EncU8(e, K_SHORT_SHARED_MIN + index)
    ELSE EncU8(EncU8(e, K_LONG_SHARED_MIN + ((index \div 256) % 4)), index % 256)

\* The literal of writeString, utf8Bytes the UTF-8 bytes of value.
writeStringLiteral(e, str, utf8Bytes) ==
  IF isAsciiString(str)
    THEN IF Len(utf8Bytes) >= 1 /\ Len(utf8Bytes) <= 32
           THEN EncBuf(EncU8(e, TINY_ASCII_MIN + Len(utf8Bytes) - 1), utf8Bytes)
         ELSE IF Len(utf8Bytes) >= 33 /\ Len(utf8Bytes) <= 64
           THEN EncBuf(EncU8(e, SHORT_ASCII_MIN + Len(utf8Bytes) - 33), utf8Bytes)
         ELSE EncU8(EncBuf(EncU8(e, LONG_ASCII_TEXT), utf8Bytes), END_STRING_MARKER)
    ELSE IF Len(utf8Bytes) >= 2 /\ Len(utf8Bytes) <= 33
           THEN EncBuf(EncU8(e, TINY_UNICODE_MIN + Len(utf8Bytes) - 2), utf8Bytes)
         ELSE IF Len(utf8Bytes) >= 34 /\ Len(utf8Bytes) <= 65
           THEN EncBuf(EncU8(e, SHORT_UNICODE_MIN + Len(utf8Bytes) - 34), utf8Bytes)
         ELSE EncU8(EncBuf(EncU8(e, LONG_UNICODE_TEXT), utf8Bytes), END_STRING_MARKER)

\* The end of writeString: the string is added to the table when it may be.
writeStringAdd(opt, w, str) ==
  IF opt.sharedStringValues /\ isStringShareable(str)
    THEN [w EXCEPT !.sv = addSharedValue(@, str)]
    ELSE w

\* writeString(value)
writeString(opt, e, str) ==
  IF str = << >> THEN EncU8(e, V_EMPTY_STRING)
  ELSE IF opt.sharedStringValues /\ isStringShareable(str) /\ MapGet(e.sv, str) >= 0
    THEN writeSharedValueReference(e, MapGet(e.sv, str))
  ELSE writeStringAdd(opt, writeStringLiteral(e, str, Utf8Encode(str)), str)

\* writeBinary(data)
writeBinary(opt, e, data) ==
  IF opt.rawBinaryEnabled
    THEN EncBuf(EncBuf(EncU8(e, BINARY_RAW), writeVInt(Big(Len(data)))), data)
    ELSE EncBuf(EncBuf(EncU8(e, BINARY_7BIT), writeVInt(Big(Len(data)))),
                encodeSafeBinary(data))

\* The literal of writeKey, utf8Bytes the UTF-8 bytes of key.
SmileEncoderWriteKeyLiteral(e, name, utf8Bytes) ==
  IF isAsciiString(name) /\ Len(utf8Bytes) >= 1 /\ Len(utf8Bytes) <= 64
    THEN EncBuf(EncU8(e, K_SHORT_ASCII_MIN + Len(utf8Bytes) - 1), utf8Bytes)
  ELSE IF ~isAsciiString(name) /\ Len(utf8Bytes) >= 2 /\ Len(utf8Bytes) <= 57
    THEN EncBuf(EncU8(e, K_SHORT_UNICODE_MIN + Len(utf8Bytes) - 2), utf8Bytes)
  ELSE EncU8(EncBuf(EncU8(e, K_LONG_UNICODE_NAME), utf8Bytes), END_STRING_MARKER)

\* The end of writeKey: the key is added to the table.
SmileEncoderWriteKeyAdd(opt, w, name) ==
  IF opt.sharedPropertyNames
    THEN [w EXCEPT !.sk = SmileEncoderAddSharedKey(@, name)]
    ELSE w

\* writeKey(key)
SmileEncoderWriteKey(opt, e, name) ==
  IF name = << >> THEN EncU8(e, K_EMPTY_STRING)
  ELSE IF opt.sharedPropertyNames /\ MapGet(e.sk, name) >= 0
    THEN writeSharedKeyReference(e, MapGet(e.sk, name))
  ELSE SmileEncoderWriteKeyAdd(opt, SmileEncoderWriteKeyLiteral(e, name, Utf8Encode(name)), name)

RECURSIVE SmileEncoderWriteAny(_, _, _)
RECURSIVE writeArrayItems(_, _, _, _)
RECURSIVE writeObjectEntries(_, _, _, _)

\* The loop of writeArray, from item i on.
writeArrayItems(opt, e, arr, i) ==
  IF i > Len(arr) THEN e
  ELSE writeArrayItems(opt, SmileEncoderWriteAny(opt, e, arr[i]), arr, i + 1)

\* writeArray(arr)
writeArray(opt, e, arr) ==
  EncU8(writeArrayItems(opt, EncU8(e, START_ARRAY), arr, 1), END_ARRAY)

\* The loop of writeObject, from entry i on.
writeObjectEntries(opt, e, entries, i) ==
  IF i > Len(entries) THEN e
  ELSE writeObjectEntries(opt,
         SmileEncoderWriteAny(opt, SmileEncoderWriteKey(opt, e, entries[i][1]), entries[i][2]),
         entries, i + 1)

\* writeObject(obj)
writeObject(opt, e, obj) ==
  EncU8(writeObjectEntries(opt, EncU8(e, START_OBJECT), obj, 1), END_OBJECT)

\* writeAny(value), for a value that is no number
SmileEncoderWriteAny(opt, e, v) ==
  CASE v.t = "str" -> writeString(opt, e, v.v)
    [] v.t = "bool" -> writeBoolean(e, v.v)
    [] v.t = "null" -> writeNull(e)
    [] v.t = "arr" -> writeArray(opt, e, v.v)
    [] v.t = "obj" -> writeObject(opt, e, v.v)
    [] v.t = "bin" -> writeBinary(opt, e, v.v)

\* encode(value): writeAny(value), then what writer.flush() returns is in out.
SmileEncoderEncode(opt, e, v) == SmileEncoderWriteAny(opt, e, v)

(***************************************************************************)
(* The shared tables of one SmileEncoder of SmileEncoder.ts over many      *)
(* calls, the calls being those made of the SmileEncoderBase above.        *)
(***************************************************************************)
MaxAloneCalls == 300

\* encoder.encode(v)
EncodeAlone(v) ==
  /\ Filling
  /\ encCalls < MaxAloneCalls
  /\ wire' = SmileEncoderEncode(options, enc, v).out
  /\ enc' = [SmileEncoderEncode(options, enc, v) EXCEPT !.out = << >>]
  /\ encEntry' = enc
  /\ value' = v
  /\ encCalls' = encCalls + 1
  /\ UNCHANGED << options, dec, decCalls, decEntry, full, ref, others >>

\* encoder.encode({name: name}), name a new string
AloneEntry == EncodeAlone(ObjV(<< << Name(encCalls), StrV(Name(encCalls)) >> >>))

\* encoder.encode(name), name a new string
AloneNewString == EncodeAlone(StrV(Name(encCalls)))

\* encoder.encode(str), str the string the value table holds at index i
AloneSeenString(i) == i < Len(enc.sv) /\ EncodeAlone(StrV(enc.sv[i + 1]))

\* encoder.encode({name: null}), name a new string
AloneNewKey == EncodeAlone(ObjV(<< << Name(encCalls), NullV >> >>))

\* encoder.encode({key: null}), key the string the key table holds at index i
AloneSeenKey(i) == i < Len(enc.sk) /\ EncodeAlone(ObjV(<< << enc.sk[i + 1], NullV >> >>))

NextAlone ==
  \/ AloneEntry
  \/ AloneNewString
  \/ \E i \in SeenIndices : AloneSeenString(i)
  \/ AloneNewKey
  \/ \E i \in SeenIndices : AloneSeenKey(i)

SpecAlone == InitShare /\ [][NextAlone]_vars

\* The last call wrote a string as a value that the value table did not hold.
WroteNewString ==
  /\ encCalls >= 1
  /\ \/ value.t = "str" /\ value.v \notin Held(encEntry.sv)
     \/ value.t = "obj" /\ value.v[1][2].t = "str" /\ value.v[1][2].v \notin Held(encEntry.sv)

\* The last call wrote a key that the key table did not hold.
WroteNewKey ==
  /\ encCalls >= 1
  /\ value.t = "obj"
  /\ value.v[1][1] \notin Held(encEntry.sk)

\* C24: a shared table that holds 254 entries or more goes on growing: a
\* sharing-eligible string written after that and not yet in the table is in
\* the table after the call.
C24_TableKeepsGrowing ==
  /\ (WroteNewString /\ Len(encEntry.sv) >= 254)
       => (IF value.t = "str" THEN value.v ELSE value.v[1][2].v) \in Held(enc.sv)
  /\ (WroteNewKey /\ Len(encEntry.sk) >= 254) => value.v[1][1] \in Held(enc.sk)

\* The last call encoded one string that the value table held: its index.
SeenStringCall == StringCall /\ value.v \in Held(encEntry.sv)

SeenStringIndex == MapGet(encEntry.sv, value.v)

\* C25: the reference to the entry i of the shared value table is the single
\* byte 0x01 + i exactly when i is one of 0..30, and starts with a token of
\* the long reference (0xEC..0xEF) when i is 31 or more; it is never the
\* byte 0x20 of the empty string.
C25_ShortReferenceRange ==
  SeenStringCall =>
    /\ SeenStringIndex <= 30 => Written = << SHORT_SHARED_VALUE_MIN + SeenStringIndex >>
    /\ SeenStringIndex >= 31 =>
         (Len(Written) >= 2 /\ Written[1] \in SHARED_STRING_LONG..(SHARED_STRING_LONG + 3))
    /\ Written # << V_EMPTY_STRING >>

(***************************************************************************)
(* The long references of the key table: one decoder decodes documents of  *)
(* KeysPerDocument new keys each until its key table holds MAX_REFERENCES  *)
(* keys, and then a document whose only key is the long reference that     *)
(* tryWriteSharedKey writes for an index.                                  *)
(***************************************************************************)
\* The n-th document of new keys: {name: null, ...} under a header with both
\* tables on, the names those from n * KeysPerDocument on.
NamesDocument(n) ==
  Hdr(3) \o << START_OBJECT >>
    \o Flatten([j \in 1..KeysPerDocument |->
                  << K_SHORT_ASCII_MIN + 2 >> \o Name(n * KeysPerDocument + j - 1)
                    \o << V_NULL >>])
    \o << END_OBJECT >>

\* The indices of the long references: 64 to 1023.
LongKeyIndices == 64..(MAX_REFERENCES - 1)

\* decoder.decode(NamesDocument(decCalls)), while the key table is not full
DecodeNames ==
  /\ ref = NoRef
  /\ Len(dec.sk) < MAX_REFERENCES
  /\ dec' = decode(dec, NamesDocument(decCalls))
  /\ decEntry' = Entry(dec)
  /\ decCalls' = decCalls + 1
  /\ full' = NamesDocument(decCalls)
  /\ UNCHANGED << options, enc, encCalls, encEntry, value, wire, ref, others >>

\* decoder.decode of the document whose key is the long reference of index i,
\* on the decoder whose key table is full
DecodeLongKey(i) ==
  /\ ref = NoRef
  /\ Len(dec.sk) >= MAX_REFERENCES
  /\ dec' = decode(dec, ReferenceDocument([kind |-> "key", index |-> i]))
  /\ decEntry' = Entry(dec)
  /\ decCalls' = decCalls + 1
  /\ full' = ReferenceDocument([kind |-> "key", index |-> i])
  /\ ref' = [kind |-> "key", index |-> i]
  /\ UNCHANGED << options, enc, encCalls, encEntry, value, wire, others >>

NextKeyRefs ==
  \/ DecodeNames
  \/ \E i \in LongKeyIndices : DecodeLongKey(i)

SpecKeyRefs == InitDec /\ [][NextKeyRefs]_vars

\* C26: for every index i from 64 to 1023 of the shared key table, the
\* decoder reads the long reference that the encoder writes for i as the key
\* its table holds at index i.
C26_LongKeyRoundTrip ==
  (ref.kind = "key" /\ ref.index \in LongKeyIndices /\ ref.index < Len(decEntry.sk))
    => /\ dec.err = ""
       /\ dec.val.t = "obj"
       /\ Len(dec.val.v) = 1
       /\ dec.val.v[1][1] = decEntry.sk[ref.index + 1]

\* C27: in the 7-bit mode the VInt written after the token of a binary value
\* is the number of bytes of the data, not the number of 7-bit bytes that
\* follow it.  (A number below 64 is the one VInt byte 0x80 + number.)
C27_OriginalLengthPrefix ==
  (encCalls = 1 /\ value.t = "bin" /\ ~options.rawBinaryEnabled /\ Len(value.v) < 64)
    => /\ wire[5] = BINARY_7BIT
       /\ wire[6] = 128 + Len(value.v)

(***************************************************************************)
(* The modes of a byte sequence, by the token maps of the format: after    *)
(* START_OBJECT a key token is expected, after a key token a value, after  *)
(* a value of an object a key token again or END_OBJECT.  The stack holds, *)
(* for every container that is open, "arr", "key" (an object where a key   *)
(* is expected) or "val" (an object where a value is expected).            *)
(***************************************************************************)
\* The index after the VInt that starts after the index x, -1 when it has no end.
RECURSIVE VIntEnd(_, _)
VIntEnd(bytes, x) ==
  IF x >= Len(bytes) THEN 0 - 1
  ELSE IF bytes[x + 1] >= 128 THEN x + 1
  ELSE VIntEnd(bytes, x + 1)

\* The index after the end-of-string marker that follows the index x, -1 for none.
RECURSIVE MarkerEnd(_, _)
MarkerEnd(bytes, x) ==
  IF x >= Len(bytes) THEN 0 - 1
  ELSE IF bytes[x + 1] = END_STRING_MARKER THEN x + 1
  ELSE MarkerEnd(bytes, x + 1)

\* The index x + n, -1 when the bytes end before it or x is -1.
Within(bytes, x, n) == IF x < 0 \/ x + n > Len(bytes) THEN 0 - 1 ELSE x + n

\* The index after the value token at the index x and its payload, the token
\* being none of a container; -1 when the token is none of a value or its
\* payload passes the end.
ScalarEnd(bytes, x) ==
  CASE bytes[x + 1] \in SHORT_SHARED_VALUE_MIN..SHORT_SHARED_VALUE_MAX -> x + 1
    [] bytes[x + 1] \in {V_EMPTY_STRING, V_NULL, V_FALSE, V_TRUE} -> x + 1
    [] bytes[x + 1] \in {V_INT_32, V_INT_64} -> VIntEnd(bytes, x + 1)
    [] bytes[x + 1] = V_FLOAT_32 -> Within(bytes, x + 1, 5)
    [] bytes[x + 1] = V_FLOAT_64 -> Within(bytes, x + 1, 10)
    [] bytes[x + 1] \in TINY_ASCII_MIN..TINY_ASCII_MAX ->
         Within(bytes, x + 1, bytes[x + 1] - TINY_ASCII_MIN + 1)
    [] bytes[x + 1] \in SHORT_ASCII_MIN..SHORT_ASCII_MAX ->
         Within(bytes, x + 1, bytes[x + 1] - SHORT_ASCII_MIN + 33)
    [] bytes[x + 1] \in TINY_UNICODE_MIN..TINY_UNICODE_MAX ->
         Within(bytes, x + 1, bytes[x + 1] - TINY_UNICODE_MIN + 2)
    [] bytes[x + 1] \in SHORT_UNICODE_MIN..SHORT_UNICODE_MAX ->
         Within(bytes, x + 1, bytes[x + 1] - SHORT_UNICODE_MIN + 34)
    [] bytes[x + 1] \in SMALL_INT_MIN..SMALL_INT_MAX -> x + 1
    [] bytes[x + 1] \in {LONG_ASCII_TEXT, LONG_UNICODE_TEXT} -> MarkerEnd(bytes, x + 1)
    [] bytes[x + 1] \in SHARED_STRING_LONG..(SHARED_STRING_LONG + 3) -> Within(bytes, x + 1, 1)
    [] OTHER -> 0 - 1

\* The index after the key token at the index x and its payload; -1 when the
\* token is none of a key or its payload passes the end.
KeyEnd(bytes, x) ==
  CASE bytes[x + 1] = K_EMPTY_STRING -> x + 1
    [] bytes[x + 1] \in K_LONG_SHARED_MIN..K_LONG_SHARED_MAX -> Within(bytes, x + 1, 1)
    [] bytes[x + 1] = K_LONG_UNICODE_NAME -> MarkerEnd(bytes, x + 1)
    [] bytes[x + 1] \in K_SHORT_SHARED_MIN..K_SHORT_SHARED_MAX -> x + 1
    [] bytes[x + 1] \in K_SHORT_ASCII_MIN..K_SHORT_ASCII_MAX ->
         Within(bytes, x + 1, bytes[x + 1] - K_SHORT_ASCII_MIN + 1)
    [] bytes[x + 1] \in K_SHORT_UNICODE_MIN..K_SHORT_UNICODE_MAX ->
         Within(bytes, x + 1, bytes[x + 1] - K_SHORT_UNICODE_MIN + 2)
    [] OTHER -> 0 - 1

\* The stack after a value ended: the object it was a value of expects a key.
AfterValue(stack) ==
  IF stack # << >> /\ stack[Len(stack)] = "val"
    THEN [stack EXCEPT ![Len(stack)] = "key"]
    ELSE stack

Pop(stack) == SubSeq(stack, 1, Len(stack) - 1)

\* Whether the bytes from the index x on keep the modes: keys and values
\* alternate in every object, and END_OBJECT stands where a key is expected.
RECURSIVE ModesKept(_, _, _)
ModesKept(bytes, x, stack) ==
  IF x < 0 THEN FALSE
  ELSE IF x >= Len(bytes) THEN TRUE
  ELSE IF stack # << >> /\ stack[Len(stack)] = "key"
    THEN IF bytes[x + 1] = END_OBJECT
           THEN ModesKept(bytes, x + 1, AfterValue(Pop(stack)))
           ELSE ModesKept(bytes, KeyEnd(bytes, x), [stack EXCEPT ![Len(stack)] = "val"])
  ELSE IF bytes[x + 1] = END_OBJECT THEN FALSE
  ELSE IF bytes[x + 1] = START_OBJECT THEN ModesKept(bytes, x + 1, Append(stack, "key"))
  ELSE IF bytes[x + 1] = START_ARRAY THEN ModesKept(bytes, x + 1, Append(stack, "arr"))
  ELSE IF bytes[x + 1] = END_ARRAY
    THEN stack # << >> /\ stack[Len(stack)] = "arr"
           /\ ModesKept(bytes, x + 1, AfterValue(Pop(stack)))
  ELSE ModesKept(bytes, ScalarEnd(bytes, x), AfterValue(stack))

(***************************************************************************)
(* One SmileEncoderBase with the default options whose objects are written *)
(* whole, by writeObj, or in pieces, by writeStartObj, writeObjChunk and   *)
(* writeEndObj; wire is what the writer holds after the call.              *)
(***************************************************************************)
MaxObjCalls == 3

\* The keys and the values of the entries written.
ObjKeys == << << 110 >>, << 233 >> >>

ObjValues ==
  << NullV, IntV(1), StrV(<< 65 >>), StrV(<< 97, 98 >>),
     ArrV(<< NullV >>), ObjV(<< >>), ObjV(<< << << 110 >>, IntV(1) >> >>) >>

\* The state after a call that left the encoder as e.
Wrote(e, v) ==
  /\ encCalls < MaxObjCalls
  /\ enc' = e
  /\ wire' = e.out
  /\ encEntry' = enc
  /\ value' = v
  /\ encCalls' = encCalls + 1
  /\ UNCHANGED << options, dec, decCalls, decEntry, full, ref, others >>

\* encoder.writeObj(obj)
WriteObj(i) == ObjValues[i].t = "obj" /\ Wrote(writeObj(options, enc, ObjValues[i].v), ObjValues[i])

\* encoder.writeStartObj()
WriteStartObj == Wrote(EncU8(enc, START_OBJECT), NullV)

\* encoder.writeObjChunk(key, value)
WriteObjChunk(k, i) ==
  Wrote(writeAny(options, writeKey(options, enc, ObjKeys[k]), ObjValues[i]), ObjValues[i])

\* encoder.writeEndObj()
WriteEndObj == Wrote(EncU8(enc, END_OBJECT), NullV)

NextObj ==
  \/ \E i \in 1..Len(ObjValues) : WriteObj(i)
  \/ WriteStartObj
  \/ \E k \in 1..Len(ObjKeys), i \in 1..Len(ObjValues) : WriteObjChunk(k, i)
  \/ WriteEndObj

SpecObj == InitDec /\ [][NextObj]_vars

\* C28: in the bytes the encoder has written after its header, whether by
\* writeObj or by any sequence of writeStartObj, writeObjChunk and
\* writeEndObj, the key tokens and value tokens of every object alternate,
\* a key first, and END_OBJECT stands only where a key is expected.
C28_ModesAlternate ==
  encCalls >= 1 => ModesKept(wire, 4, << >>)

(***************************************************************************)
(* find on documents with containers of indefinite length, which the       *)
(* encoder never writes and a decoder is given by other encoders: the      *)
(* bytes of each document and the value it holds.                          *)
(***************************************************************************)
IndefiniteDocs ==
  << << 159, 1, 2, 255 >>,
     << 191, 97, 97, 1, 97, 98, 2, 255 >>,
     << 130, 159, 10, 20, 255, 3 >>,
     << 161, 97, 97, 191, 97, 98, 24, 123, 255 >>,
     << 130, 159, 1, 255, 2 >>,
     << 162, 97, 98, 191, 97, 97, 1, 255, 97, 97, 2 >> >>

IndefiniteValues ==
  << ArrV(<< NumV(1), NumV(2) >>),
     ObjV(<< << << 97 >>, NumV(1) >>, << << 98 >>, NumV(2) >> >>),
     ArrV(<< ArrV(<< NumV(10), NumV(20) >>), NumV(3) >>),
     ObjV(<< << << 97 >>, ObjV(<< << << 98 >>, NumV(123) >> >>) >> >>),
     ArrV(<< ArrV(<< NumV(1) >>), NumV(2) >>),
     ObjV(<< << << 98 >>, ObjV(<< << << 97 >>, NumV(1) >> >>) >>, << << 97 >>, NumV(2) >> >>) >>

\* decoder.reader.reset(bytes); decoder.find(path); then decoder.val()
FindIndefinite(k, path) ==
  /\ cbor.op = "none"
  /\ cbor' = [cbor EXCEPT !.op = "find", !.path = path, !.value = IndefiniteValues[k],
                          !.wire = IndefiniteDocs[k],
                          !.d = find([NewCborDecoder EXCEPT !.data = IndefiniteDocs[k]], path),
                          !.at = CborVal(find([NewCborDecoder EXCEPT !.data = IndefiniteDocs[k]],
                                              path))]
  /\ UNCHANGED << codec, vint, json >>

NextFind == \E k \in 1..Len(IndefiniteDocs), path \in Paths : FindIndefinite(k, path)

SpecFind == InitCbor /\ [][NextFind]_vars

\* C29: on a document with arrays and maps of indefinite length, find with
\* a path that resolves in the value of the document does not fail, and the
\* value read at the cursor it leaves is the value the path resolves to.
C29_FindIndefinite ==
  (cbor.op = "find" /\ cbor.path # << >> /\ Resolves(cbor.value, cbor.path, 1))
  => /\ cbor.d.err = ""
     /\ cbor.at.err = ""
     /\ Equiv(cbor.at.val, resolvePath(cbor.value, cbor.path, 1))

(***************************************************************************)
(* Keys with characters of more than one UTF-8 byte.                       *)
(***************************************************************************)
\* The value encoded is an object whose first key has such a character and
\* a UTF-8 form of 2 to 57 bytes.
MultiByteKey ==
  /\ value.t = "obj"
  /\ value.v # << >>
  /\ Len(Utf8Encode(value.v[1][1])) > JsLength(value.v[1][1])
  /\ Len(Utf8Encode(value.v[1][1])) <= 57

\* C30: the first key of an object, when it has multi-byte characters, is
\* written after START_OBJECT with the short Unicode token of the length of
\* its UTF-8 form, and the decoder returns an object with that same key.
C30_MultiByteKey ==
  (FirstRoundTrip /\ MultiByteKey)
  => /\ wire[5] = START_OBJECT
     /\ wire[6] = K_SHORT_UNICODE_MIN + Len(Utf8Encode(value.v[1][1])) - 2
     /\ dec.err = ""
     /\ dec.val.t = "obj"
     /\ dec.val.v # << >>
     /\ dec.val.v[1][1] = value.v[1][1]

====
